---- MODULE Spec2Model ----
(***************************************************************************)
(* Shift-assignment engine (solver/engine.py, solve_schedule) and the      *)
(* asynchronous job controller (routers/schedule.py, routers/worker.py).   *)
(*                                                                         *)
(* Conventions of the model                                                *)
(*  - a date "YYYY-MM-DD" is a day number; day 0 is a Monday, so the ISO   *)
(*    (year, week) bucket of day d is d \div 7;                            *)
(*  - a time "HH:MM" is the pair <<h, m>>; get_minutes converts it;        *)
(*  - a role is a sequence of one-character strings, so that strip(),      *)
(*    upper() and the substring test are computed, not assumed;            *)
(*  - a person name is a sequence of words;                                *)
(*  - None is the string "None" for identifiers, the empty sequence for    *)
(*    roles, names and times, NoDate for dates and the empty dict for an   *)
(*    entity (Python tests all of them for truth, not for identity).       *)
(*  - the CP-SAT solver is a nondeterministic choice among the outcomes    *)
(*    it can report: any assignment that satisfies the hard constraints    *)
(*    (status OPTIMAL or FEASIBLE), or no readable value at all (UNKNOWN   *)
(*    on time-out, INFEASIBLE when no assignment satisfies them).          *)
(***************************************************************************)
EXTENDS Integers, Sequences, FiniteSets, TLC

None == "None"

NoDate == -1

\* ------------------------------------------------------------------------
\* Bounds of the model
\* ------------------------------------------------------------------------
MaxEmployees == 2
MaxShifts == 3
MaxUnavailabilities == 1

\* ------------------------------------------------------------------------
\* Strings
\* ------------------------------------------------------------------------
UpperOf ==
  ("a" :> "A") @@ ("c" :> "C") @@ ("d" :> "D") @@ ("e" :> "E") @@
  ("g" :> "G") @@ ("h" :> "H") @@ ("i" :> "I") @@ ("k" :> "K") @@
  ("l" :> "L") @@ ("m" :> "M") @@ ("n" :> "N") @@ ("o" :> "O") @@
  ("p" :> "P") @@ ("r" :> "R") @@ ("s" :> "S") @@ ("t" :> "T") @@
  ("u" :> "U") @@ ("v" :> "V") @@ ("w" :> "W")

\* str.upper()
upper(s) == [i \in 1..Len(s) |-> IF s[i] \in DOMAIN UpperOf THEN UpperOf[s[i]] ELSE s[i]]

RECURSIVE lstrip(_)
lstrip(s) == IF s # <<>> /\ Head(s) = " " THEN lstrip(Tail(s)) ELSE s

RECURSIVE rstrip(_)
rstrip(s) == IF s # <<>> /\ s[Len(s)] = " " THEN rstrip(SubSeq(s, 1, Len(s) - 1)) ELSE s

\* str.strip()
strip(s) == rstrip(lstrip(s))

\* Python's  a in b  on strings
IsSubstring(a, b) ==
  \E i \in 0..(Len(b) - Len(a)) : SubSeq(b, i + 1, i + Len(a)) = a

\* engine.norm_role: str(r or "").strip().upper()
norm_role(r) == upper(strip(r))

WORKER == <<"W", "O", "R", "K", "E", "R">>

\* ------------------------------------------------------------------------
\* Names
\* ------------------------------------------------------------------------
UpperWord ==
  ("Mario" :> "MARIO") @@ ("mario" :> "MARIO") @@ ("MARIO" :> "MARIO") @@
  ("Rossi" :> "ROSSI") @@ ("rossi" :> "ROSSI") @@ ("ROSSI" :> "ROSSI") @@
  ("Luigi" :> "LUIGI") @@ ("Verdi" :> "VERDI") @@ ("Anna" :> "ANNA")

WordRank ==
  ("ANNA" :> 1) @@ ("LUIGI" :> 2) @@ ("MARIO" :> 3) @@ ("ROSSI" :> 4) @@
  ("VERDI" :> 5)

\* name.upper().strip(): the words in their order, uppercased
upper_name(n) ==
  [i \in 1..Len(n) |-> IF n[i] \in DOMAIN UpperWord THEN UpperWord[n[i]] ELSE n[i]]

\* position of a word in the sort order; words of digits come first
rank(w) == IF w \in DOMAIN WordRank THEN WordRank[w] ELSE 0

\* sorted(words)
RECURSIVE sorted(_)
sorted(ws) ==
  IF ws = <<>> THEN <<>>
  ELSE LET i == CHOOSE k \in 1..Len(ws) :
                  \A j \in 1..Len(ws) : rank(ws[k]) <= rank(ws[j])
       IN <<ws[i]>> \o sorted(SubSeq(ws, 1, i - 1) \o SubSeq(ws, i + 1, Len(ws)))

\* engine.normalize_name: uppercase, split into words, sort the words
normalize_name(n) == sorted(upper_name(n))

\* ------------------------------------------------------------------------
\* Times and dates
\* ------------------------------------------------------------------------
\* engine.get_minutes
get_minutes(t) == t[1] * 60 + t[2]

\* date.isocalendar()[:2]
isoweek(d) == d \div 7

\* ------------------------------------------------------------------------
\* solve_schedule: employee de-duplication (engine.py 38-59)
\* ------------------------------------------------------------------------
\* str(emp.get("id") or ... or "").strip()
emp_eid(emp) == IF emp.id = None THEN "" ELSE emp.id

RECURSIVE unique_employees(_, _, _)
unique_employees(emps, seen_names, id_dedupe) ==
  IF emps = <<>> THEN <<>>
  ELSE LET emp == Head(emps)
           eid == emp_eid(emp)
           fname == normalize_name(emp.name)
       IN IF eid = "" \/ fname = <<>>
          THEN unique_employees(Tail(emps), seen_names, id_dedupe)
          ELSE IF fname \notin seen_names /\ eid \notin id_dedupe
               THEN <<emp>> \o unique_employees(Tail(emps), seen_names \cup {fname},
                                                id_dedupe \cup {eid})
               ELSE unique_employees(Tail(emps), seen_names, id_dedupe)

deduplicate(emps) ==
  LET u == unique_employees(emps, {}, {})
  IN IF Len(u) < Len(emps) THEN u ELSE emps

\* ------------------------------------------------------------------------
\* solve_schedule: eligibility filter (engine.py 394-431)
\* ------------------------------------------------------------------------
\* the wildcard forgotten: only equal or nested roles match
role_match_strict_only(e_role, s_role) ==
  e_role = s_role \/ IsSubstring(e_role, s_role) \/ IsSubstring(s_role, e_role)

role_match(e_role, s_role) ==
  LET is_worker_match == (e_role = WORKER \/ s_role = WORKER)
      strict_match == (e_role = s_role \/ IsSubstring(e_role, s_role)
                                       \/ IsSubstring(s_role, e_role))
  IN is_worker_match \/ strict_match

\* the hire date forgotten: only the dismissal date is checked
contract_ok_dismissal_only(emp, shift) ==
  ~(emp.dtDismissed # NoDate /\ shift.date > emp.dtDismissed)

contract_ok(emp, shift) ==
  /\ ~(emp.dtHired # NoDate /\ shift.date < emp.dtHired)
  /\ ~(emp.dtDismissed # NoDate /\ shift.date > emp.dtDismissed)

viable(emp, shift) ==
  /\ role_match(norm_role(emp.role), norm_role(shift.role))
  /\ contract_ok(emp, shift)

\* the keys of x: the (e_idx, s_idx) pairs that get a BoolVar; emp.get("role")
\* of a dict without the key is None, which norm_role turns into ""
viable_pairs(emps, shifts) ==
  {p \in (1..Len(emps)) \X (1..Len(shifts)) : viable(emps[p[1]], shifts[p[2]])}

\* ------------------------------------------------------------------------
\* solve_schedule: shift_details / shift_durations (engine.py 546-563)
\* ------------------------------------------------------------------------
shift_duration(s) ==
  LET d == get_minutes(s.start_time)
      e == get_minutes(s.end_time)
  IN IF e - d < 0 THEN e - d + 1440 ELSE e - d

day_offset(shifts, i) == shifts[i].date - shifts[1].date

abs_start(shifts, i) == day_offset(shifts, i) * 1440 + get_minutes(shifts[i].start_time)

abs_end(shifts, i) == abs_start(shifts, i) + shift_duration(shifts[i])

\* sum of the durations of the shifts whose indices are in S
RECURSIVE sum_minutes(_, _)
sum_minutes(shifts, S) ==
  IF S = {} THEN 0
  ELSE LET i == CHOOSE k \in S : TRUE
       IN shift_duration(shifts[i]) + sum_minutes(shifts, S \ {i})

\* ------------------------------------------------------------------------
\* solve_schedule: hard constraints of the CP-SAT model.
\* x is the set of pairs that have a BoolVar; v \subseteq x is the set of
\* pairs whose BoolVar is 1 in a candidate solution.
\* ------------------------------------------------------------------------
shifts_of(v, e) == {p[2] : p \in {q \in v : q[1] = e}}

\* the coverage constraint left out of the model
coverage_dropped(v, shifts) == TRUE

\* A. coverage (engine.py 513-516): sum(eligible_vars) + unassigned[s] == 1
\* with unassigned[s] a BoolVar
coverage(v, shifts) ==
  \A s \in {p[2] : p \in v} : Cardinality({p \in v : p[2] = s}) <= 1

\* name_of_id (engine.py 520); a later employee overwrites an equal key
name_of_id(emps, u_eid) ==
  LET hits == {i \in 1..Len(emps) : emp_eid(emps[i]) = u_eid}
  IN IF hits = {} THEN <<>>
     ELSE emps[CHOOSE i \in hits : \A j \in hits : j <= i].name

\* B. unavailability (engine.py 521-533): the pair is forced to 0
unavailable(emps, unavs, emp, shift) ==
  \E k \in 1..Len(unavs) :
    LET unav == unavs[k]
        u_eid == IF unav.employee_id = None THEN "" ELSE unav.employee_id
        u_name == upper_name(name_of_id(emps, u_eid))
        e_name == upper_name(emp.name)
    IN /\ (unav.employee_id = emp.id \/ (u_name # <<>> /\ u_name = e_name))
       /\ unav.date = shift.date

unavailability(v, emps, shifts, unavs) ==
  \A p \in v : ~unavailable(emps, unavs, emps[p[1]], shifts[p[2]])

\* the intervals padded the wrong way: only shifts with the same start collide
no_overlap_same_start(v, shifts) ==
  \A p \in v, q \in v :
    (p[1] = q[1] /\ p[2] < q[2]) =>
      abs_start(shifts, p[2]) # abs_start(shifts, q[2])

\* C.1 AddNoOverlap over one employee's optional intervals (engine.py
\* 565-583): the present intervals can be put in a sequence with
\* end_i <= start_(i+1)
no_overlap(v, shifts) ==
  \A p \in v, q \in v :
    (p[1] = q[1] /\ p[2] < q[2]) =>
      \/ abs_end(shifts, p[2]) <= abs_start(shifts, q[2])
      \/ abs_end(shifts, q[2]) <= abs_start(shifts, p[2])

REST_PERIOD == 660

\* keys of emp_shifts_by_day[e_idx] (engine.py 590-595)
active_days(x, shifts, e) == {day_offset(shifts, s) : s \in shifts_of(x, e)}

\* the loop of engine.py 597-606 compares day d1 with the next two keys of
\* sorted_days: at most one active day lies strictly between d1 and d2
rest_compared(x, shifts, e, s1, s2) ==
  LET d1 == day_offset(shifts, s1)
      d2 == day_offset(shifts, s2)
  IN /\ d1 < d2
     /\ Cardinality({d \in active_days(x, shifts, e) : d1 < d /\ d < d2}) <= 1

\* the rest constraints left out of the model
inter_day_rest_dropped(v, x, shifts) == TRUE

\* C.2 inter-day rest (engine.py 585-609)
inter_day_rest(v, x, shifts) ==
  \A p \in v, q \in v :
    (p[1] = q[1] /\ rest_compared(x, shifts, p[1], p[2], q[2])) =>
      abs_end(shifts, p[2]) + REST_PERIOD <= abs_start(shifts, q[2])

DefaultMaxWeeklyHours == 40

\* the profile lookup skipped: every employee gets the fallback
max_minutes_weekly_no_profile(emp, labor_profiles, entity) ==
  (IF DOMAIN entity # {} THEN entity.max_hours_weekly ELSE DefaultMaxWeeklyHours) * 60

\* engine.py 612-623
max_minutes_weekly(emp, labor_profiles, entity) ==
  LET profile_id == emp.labor_profile_id
      max_weekly_hours ==
        IF profile_id # None /\ profile_id \in DOMAIN labor_profiles
        THEN labor_profiles[profile_id].max_weekly_hours
        ELSE IF DOMAIN entity # {} THEN entity.max_hours_weekly
             ELSE DefaultMaxWeeklyHours
  IN max_weekly_hours * 60

\* D. weekly hours (engine.py 625-638): one constraint per employee and per
\* ISO week of any required shift
weekly_hours(v, emps, shifts, labor_profiles, entity) ==
  \A e \in 1..Len(emps) :
    \A yw \in {isoweek(shifts[i].date) : i \in 1..Len(shifts)} :
      sum_minutes(shifts, {s \in shifts_of(v, e) : isoweek(shifts[s].date) = yw})
        <= max_minutes_weekly(emps[e], labor_profiles, entity)

MIN_DAILY_MINUTES == 60

\* the minimum demanded of every day with pair variables, worked or not
min_daily_presence_unconditional(v, x, shifts) ==
  \A p \in x :
    sum_minutes(shifts, {s \in shifts_of(v, p[1]) :
                           day_offset(shifts, s) = day_offset(shifts, p[2])})
      >= MIN_DAILY_MINUTES

\* the minimum left out: any positive number of minutes will do
min_daily_presence_dropped(v, x, shifts) == TRUE

\* E. minimum daily presence (engine.py 640-654); works_on_day is forced to
\* 1 as soon as one pair of the day is 1
min_daily_presence(v, x, shifts) ==
  \A e \in {p[1] : p \in v} :
    \A d \in active_days(x, shifts, e) :
      LET day_s == {s \in shifts_of(v, e) : day_offset(shifts, s) = d}
      IN day_s # {} => sum_minutes(shifts, day_s) >= MIN_DAILY_MINUTES

LoadVarMax == 500000

\* person_load = NewIntVar(0, 500000) == sum(total_mins) (engine.py 751-762)
person_load(v, x, shifts, fairness_weight) ==
  fairness_weight > 0 =>
    \A e \in {p[1] : p \in x} :
      sum_minutes(shifts, shifts_of(v, e)) <= LoadVarMax

CONTIGUITY_GAP_MAX == 30

SHORT_SHIFT_MINUTES == 120

ISOLATION_PENALTY == 10000

\* F. the potential neighbours of shift s for employee e (engine.py 692-703):
\* the other shifts of the same day that the employee has a pair variable
\* for, starting at most 30 minutes after s ends or ending at most 30
\* minutes before s starts
neighbors(x, shifts, e, s) ==
  {o \in shifts_of(x, e) \ {s} :
     /\ day_offset(shifts, o) = day_offset(shifts, s)
     /\ LET gap_forward == abs_start(shifts, o) - abs_end(shifts, s)
            gap_backward == abs_start(shifts, s) - abs_end(shifts, o)
        IN \/ (0 <= gap_forward /\ gap_forward <= CONTIGUITY_GAP_MAX)
           \/ (0 <= gap_backward /\ gap_backward <= CONTIGUITY_GAP_MAX)}

\* the pairs of a short shift (engine.py 690)
short_pairs(x, shifts) == {p \in x : shift_duration(shifts[p[2]]) < SHORT_SHIFT_MINUTES}

\* the pairs that get an is_isolated BoolVar (engine.py 705-716)
isolation_vars(x, shifts) ==
  {p \in short_pairs(x, shifts) : neighbors(x, shifts, p[1], p[2]) # {}}

\* the values the indicators can take next to v (engine.py 711-713):
\* is_isolated <= x, and is_isolated implies that no neighbour is assigned;
\* nothing forces an indicator to 1
isolation_values(v, x, shifts) ==
  {iso \in SUBSET isolation_vars(x, shifts) :
     \A p \in iso : /\ p \in v
                    /\ \A o \in neighbors(x, shifts, p[1], p[2]) : <<p[1], o>> \notin v}

\* the isolation terms of the objective (engine.py 716 and 718-721): the
\* indicators that are 1, and the assigned short pairs without any
\* potential neighbour
isolation_terms(v, iso, x, shifts) ==
  0 - ISOLATION_PENALTY *
        (Cardinality(iso)
         + Cardinality({p \in short_pairs(x, shifts) \cap v :
                          neighbors(x, shifts, p[1], p[2]) = {}}))

\* The contiguity and isolation indicators (engine.py 659-721) are bounded
\* above by pair variables only; 0 is always a value for them, so they do
\* not restrict v.
hard_constraints(v, x, emps, shifts, unavs, labor_profiles, entity, fairness_weight) ==
  /\ coverage(v, shifts)
  /\ unavailability(v, emps, shifts, unavs)
  /\ no_overlap(v, shifts)
  /\ inter_day_rest(v, x, shifts)
  /\ weekly_hours(v, emps, shifts, labor_profiles, entity)
  /\ min_daily_presence(v, x, shifts)
  /\ person_load(v, x, shifts, fairness_weight)

solutions(x, emps, shifts, unavs, labor_profiles, entity, fairness_weight) ==
  {v \in SUBSET x :
     hard_constraints(v, x, emps, shifts, unavs, labor_profiles, entity, fairness_weight)}

\* ------------------------------------------------------------------------
\* solver.Solve (engine.py 776-790)
\* ------------------------------------------------------------------------
\* solver.Value raises: no solution was found
NoValues == {<<0, 0>>}

\* A model without pair variables is decided by propagation alone (coverage
\* fixes every unassigned variable), so the time limit is reached only when
\* there is something to search.
\* Each outcome carries the pair variables that are 1 (values) and the
\* isolation indicators that are 1 (is_isolated); the objective is
\* maximized and each indicator weighs -10000 in it, so an optimal solution
\* has every indicator at 0.
solver_outcomes(x, emps, shifts, unavs, labor_profiles, entity, fairness_weight) ==
  LET sols == solutions(x, emps, shifts, unavs, labor_profiles, entity, fairness_weight)
  IN UNION {{[status |-> "FEASIBLE", values |-> v, is_isolated |-> iso] :
                iso \in isolation_values(v, x, shifts)} : v \in sols}
     \cup {[status |-> "OPTIMAL", values |-> v, is_isolated |-> {}] : v \in sols}
     \cup {[status |-> "UNKNOWN", values |-> NoValues, is_isolated |-> {}] :
             z \in IF x # {} THEN {0} ELSE {}}
     \cup {[status |-> "INFEASIBLE", values |-> NoValues, is_isolated |-> {}] :
             z \in IF sols = {} THEN {0} ELSE {}}

\* ------------------------------------------------------------------------
\* diagnostics of an INFEASIBLE or UNKNOWN status (engine.py 793-830)
\* ------------------------------------------------------------------------
\* engine.py 797: set(norm_role(e['role']) for e in employees) raises KeyError
\* for an employee dict without the key "role"
diagnostics_raise(outcome, emps) ==
  /\ outcome.status \in {"INFEASIBLE", "UNKNOWN"}
  /\ \E e \in 1..Len(emps) : ~emps[e].has_role

\* ------------------------------------------------------------------------
\* result materialisation (engine.py 829-890)
\* ------------------------------------------------------------------------
\* engine.py 829-830 and 839-848: INFEASIBLE is turned into FEASIBLE and the
\* readability of the values is probed on unassigned[0]
has_solution(outcome, shifts) ==
  LET st == IF outcome.status = "INFEASIBLE" THEN "FEASIBLE" ELSE outcome.status
  IN /\ st \in {"OPTIMAL", "FEASIBLE"}
     /\ (shifts = <<>> \/ outcome.values # NoValues)

assigned_record(shift, emp) ==
  [id |-> shift.id, date |-> shift.date, employee_id |-> emp_eid(emp),
   employee_name |-> emp.name, start_time |-> shift.start_time,
   end_time |-> shift.end_time, role |-> shift.role,
   activity_id |-> shift.activity_id, is_unassigned |-> FALSE]

unassigned_record(shift) ==
  [id |-> shift.id, date |-> shift.date, employee_id |-> "unassigned",
   employee_name |-> <<"Unassigned">>, start_time |-> shift.start_time,
   end_time |-> shift.end_time, role |-> shift.role,
   activity_id |-> shift.activity_id, is_unassigned |-> TRUE]

\* the records in the order in which the search fixed them: last shift first
materialize_reversed(outcome, x, emps, shifts) ==
  [k \in 1..Len(shifts) |->
     LET s == Len(shifts) + 1 - k
         ones == IF has_solution(outcome, shifts)
                 THEN {e \in 1..Len(emps) : <<e, s>> \in x /\ <<e, s>> \in outcome.values}
                 ELSE {}
     IN IF ones # {}
        THEN assigned_record(shifts[s], emps[CHOOSE e \in ones : \A f \in ones : e <= f])
        ELSE unassigned_record(shifts[s])]

\* engine.py 850-890: one record per shift, in the order of required_shifts
materialize(outcome, x, emps, shifts) ==
  [s \in 1..Len(shifts) |->
     LET ones == IF has_solution(outcome, shifts)
                 THEN {e \in 1..Len(emps) : <<e, s>> \in x /\ <<e, s>> \in outcome.values}
                 ELSE {}
     IN IF ones # {}
        THEN assigned_record(shifts[s], emps[CHOOSE e \in ones : \A f \in ones : e <= f])
        ELSE unassigned_record(shifts[s])]

\* ------------------------------------------------------------------------
\* solve_schedule: demand generation when no shift is supplied
\* (engine.py 152-372).  Hours are counted in quarters of an hour.
\* ------------------------------------------------------------------------
Min(a, b) == IF a < b THEN a ELSE b

Max(a, b) == IF a > b THEN a ELSE b

\* concatenation of f[lo] .. f[hi], f a sequence of sequences
RECURSIVE concat(_, _, _)
concat(f, lo, hi) ==
  IF lo > hi THEN <<>>
  ELSE IF lo = hi THEN f[lo]
  ELSE LET mid == (lo + hi) \div 2
       IN concat(f, lo, mid) \o concat(f, mid + 1, hi)

PREDICTION_LIMIT == 5000

\* engine.py 385: len(employees) * len(required_shifts) > 1000000
MAX_PROBLEM_SIZE == 1000000

\* engine.py 172-178: predicted_demand[:5000]
capacity_guard(predicted_demand) ==
  IF Len(predicted_demand) > PREDICTION_LIMIT
  THEN SubSeq(predicted_demand, 1, PREDICTION_LIMIT)
  ELSE predicted_demand

\* one iteration of the chunking loop (engine.py 202-207): the block taken
\* out of the remaining hours
chunk_block(remaining, target_dur) ==
  LET block == Min(target_dur, remaining)
  IN IF 0 < remaining - block /\ remaining - block < 8 /\ remaining <= 48
     THEN remaining
     ELSE block

\* the chunking loop (engine.py 197-211), for a positive target duration
RECURSIVE chunks(_, _)
chunks(remaining, target_dur) ==
  IF remaining >= 8
  THEN LET block == chunk_block(remaining, target_dur)
       IN IF remaining - block < 4
          THEN <<block>>
          ELSE <<block>> \o chunks(remaining - block, target_dur)
  ELSE <<>>

\* "HH:MM" of a number of quarter hours (engine.py 223-229)
time_of_quarters(q) == <<q \div 4, (q % 4) * 15>>

\* next((a for a in activities if str(a.get("id")) == str(act_id)), None),
\* as a sequence with at most one element
activity_info(activities, act_id) ==
  LET hits == {i \in 1..Len(activities) : activities[i].id = act_id}
  IN IF hits = {} THEN <<>>
     ELSE <<activities[CHOOSE i \in hits : \A j \in hits : i <= j]>>

\* the shifts of one prediction (engine.py 184-238)
ml_shifts(item, activities) ==
  LET act_info == activity_info(activities, item.activity_id)
      role_hint == IF act_info = <<>> THEN <<"w", "o", "r", "k", "e", "r">>
                   ELSE upper(strip(act_info[1].name))
      cs == chunks(item.predicted_hours, item.typical_duration)
  IN [i \in 1..Len(cs) |->
        LET curr_h == item.typical_start_hour + ((i - 1) % 4)
        IN [id |-> <<"ml", item.activity_id, item.date, i - 1, time_of_quarters(curr_h)>>,
            date |-> item.date,
            start_time |-> time_of_quarters(curr_h),
            end_time |-> time_of_quarters(curr_h + cs[i]),
            role |-> role_hint,
            activity_id |-> item.activity_id]]

\* engine.py 172-238 for a non-empty prediction list
forecast_shifts(predicted_demand, activities) ==
  LET kept == capacity_guard(predicted_demand)
      per_item == [k \in 1..Len(kept) |-> ml_shifts(kept[k], activities)]
  IN concat(per_item, 1, Len(per_item))

\* --- fallback: learned demand profile (engine.py 243-334) ---
\* a profile is a sequence of entries [act_id, patterns], patterns a
\* function from the day of week to a sequence of slots
slot_kept(p) ==
  LET dur == get_minutes(p.end_time) - get_minutes(p.start_time)
  IN (IF dur < 0 THEN dur + 1440 ELSE dur) >= 60

slot_shifts(p, act_id, date) ==
  IF slot_kept(p)
  THEN [s_idx \in 1..p.quantity |->
          [id |-> <<"learned", act_id, date, p.start_time, s_idx - 1>>,
           date |-> date, start_time |-> p.start_time, end_time |-> p.end_time,
           role |-> p.role, activity_id |-> act_id]]
  ELSE <<>>

profile_activities(profile, activities) ==
  LET keys == {profile[k].act_id : k \in 1..Len(profile)}
      relevant == SelectSeq(activities, LAMBDA a : a.id \in keys)
  IN IF relevant = <<>> /\ activities # <<>> THEN activities ELSE relevant

entry_is_active(act_id, activities) ==
  LET active_ids == {activities[i].id : i \in 1..Len(activities)}
      active_names == {upper(strip(activities[i].name)) :
                         i \in {j \in 1..Len(activities) : activities[j].name # <<>>}}
  IN \/ (active_ids = {} /\ active_names = {})
     \/ act_id \in active_ids
     \/ upper(act_id) \in active_names

profile_day_shifts(profile, activities, date) ==
  LET dow == date % 7
      per_entry ==
        [k \in 1..Len(profile) |->
           IF entry_is_active(profile[k].act_id, activities)
              /\ dow \in DOMAIN profile[k].patterns
           THEN LET slots == profile[k].patterns[dow]
                    per_slot == [j \in 1..Len(slots) |->
                                   slot_shifts(slots[j], profile[k].act_id, date)]
                IN concat(per_slot, 1, Len(per_slot))
           ELSE <<>>]
  IN concat(per_entry, 1, Len(per_entry))

\* --- fallback: smart defaults (engine.py 335-368) ---
\* list(set(roles)) has no guaranteed order: every order is an outcome
role_orders(emps) ==
  LET rs == {upper(strip(IF emps[i].role = <<>>
                         THEN <<"w", "o", "r", "k", "e", "r">> ELSE emps[i].role)) :
               i \in 1..Len(emps)}
  IN IF rs = {} THEN {<<WORKER>>}
     ELSE {f \in [1..Cardinality(rs) -> rs] : \A a, b \in DOMAIN f : a # b => f[a] # f[b]}

default_day_shifts(emps, roles, date) ==
  IF date % 7 >= 5 THEN <<>>
  ELSE LET shifts_needed == Max(2, (Len(emps) * 8) \div 10)
       IN [k \in 1..shifts_needed |->
             LET i == k - 1
                 start_h == IF i % 3 = 1 THEN 9 ELSE IF i % 3 = 2 THEN 10 ELSE 8
             IN [id |-> <<"fallback", date, i, roles[(i % Len(roles)) + 1], <<start_h, 0>>>>,
                 date |-> date, start_time |-> <<start_h, 0>>,
                 end_time |-> <<start_h + 8, 0>>,
                 role |-> roles[(i % Len(roles)) + 1], activity_id |-> <<>>]]

\* engine.py 243-372: the possible lists of generated shifts
fallback_shifts(profile, emps, activities, start_date, end_date) ==
  LET num_days == (end_date - start_date) + 1
  IN IF profile # <<>>
     THEN LET acts == profile_activities(profile, activities)
              per_day == [d \in 1..num_days |->
                            profile_day_shifts(profile, acts, start_date + d - 1)]
          IN {concat(per_day, 1, Len(per_day))}
     ELSE {LET per_day == [d \in 1..num_days |->
                             default_day_shifts(emps, roles, start_date + d - 1)]
           IN concat(per_day, 1, Len(per_day)) : roles \in role_orders(emps)}

\* ------------------------------------------------------------------------
\* solve_schedule: configuration (engine.py 67-92)
\* ------------------------------------------------------------------------
\* dict.get(k, default)
get(d, k, default) == IF k \in DOMAIN d THEN d[k] ELSE default

EmptyDict == [k \in {} |-> 0]

stored_penalty_unassigned(entity) ==
  IF DOMAIN entity # {} THEN get(entity, "penalty_unassigned", 500) ELSE 500

stored_fairness_weight(entity) ==
  IF DOMAIN entity # {} THEN get(entity, "fairness_weight", 80) ELSE 80

\* engine.py 85-92: the floors are applied with the request overrides
effective_penalty_unassigned(entity, constraints) ==
  IF DOMAIN constraints # {}
  THEN LET pu == get(constraints, "penalty_unassigned",
                     get(constraints, "penaltyUnassigned", stored_penalty_unassigned(entity)))
       IN IF pu < 500 THEN 500 ELSE pu
  ELSE stored_penalty_unassigned(entity)

effective_fairness_weight(entity, constraints) ==
  IF DOMAIN constraints # {}
  THEN LET fw == get(constraints, "fairness_weight",
                     get(constraints, "fairnessWeight", stored_fairness_weight(entity)))
       IN IF fw < 80 THEN 80 ELSE fw
  ELSE stored_fairness_weight(entity)

\* ------------------------------------------------------------------------
\* Inputs of the model
\* ------------------------------------------------------------------------
\* an employee dict; has_role tells whether the dict has the key "role"
Employee(id, name, role, hired, dismissed, profile) ==
  [id |-> id, name |-> name, has_role |-> TRUE, role |-> role, dtHired |-> hired,
   dtDismissed |-> dismissed, labor_profile_id |-> profile]

EmployeeWithoutRole(id, name) ==
  [id |-> id, name |-> name, has_role |-> FALSE, role |-> <<>>, dtHired |-> NoDate,
   dtDismissed |-> NoDate, labor_profile_id |-> None]

Shift(id, date, start, end, role) ==
  [id |-> id, date |-> date, start_time |-> start, end_time |-> end,
   role |-> role, activity_id |-> <<>>]

\* e3 bears the name of e1; the last one bears the id of e2 and has no role
EmployeePool ==
  << Employee("e1", <<"Mario", "Rossi">>, <<" ", "c", "a", "s", "h">>, NoDate, NoDate, "p20"),
     Employee("e2", <<"Luigi", "Verdi">>, <<"C", "A", "S", "H", "I", "E", "R">>, 1, NoDate, None),
     Employee("e3", <<"mario", "rossi">>, <<"w", "o", "r", "k", "e", "r">>, NoDate, 2, "p99"),
     EmployeeWithoutRole("e2", <<"Anna">>) >>

\* s1 and s2 touch; s3 overlaps s1; s4 starts 11h30 after the end of s2 and
\* s5 7h after it; s6 runs over midnight in the next ISO week
ShiftPool ==
  << Shift("s1", 0, <<9, 0>>, <<13, 0>>, <<"C", "a", "s", "h", "i", "e", "r">>),
     Shift("s2", 0, <<13, 0>>, <<21, 0>>, <<"C", "A", "S", "H">>),
     Shift("s3", 0, <<4, 0>>, <<12, 0>>, <<>>),
     Shift("s4", 1, <<8, 30>>, <<16, 30>>, <<"c", "a", "s", "h", "i", "e", "r", " ">>),
     Shift("s5", 1, <<4, 0>>, <<12, 0>>, <<"w", "o", "r", "k", "e", "r">>),
     Shift("s6", 7, <<22, 0>>, <<6, 0>>, <<"C", "O", "O", "K">>) >>

UnavailabilityPool ==
  << [employee_id |-> "e1", date |-> 0, start_time |-> <<>>, end_time |-> <<>>],
     [employee_id |-> "e3", date |-> 0, start_time |-> <<>>, end_time |-> <<>>] >>

\* injective sequences of at most n elements of the pool
Selections(pool, n) ==
  UNION {{[i \in 1..k |-> pool[f[i]]] :
            f \in {g \in [1..k -> 1..Len(pool)] : \A a, b \in 1..k : a # b => g[a] # g[b]}} :
         k \in 0..n}

\* the selections that keep the pool order or reverse it
OrderedSelections(pool, n) ==
  UNION {{[i \in 1..k |-> pool[f[i]]] :
            f \in {g \in [1..k -> 1..Len(pool)] :
                     \/ \A a, b \in 1..k : a < b => g[a] < g[b]
                     \/ \A a, b \in 1..k : a < b => g[a] > g[b]}} :
         k \in 0..n}

\* LaborProfile entities of the datastore
LaborProfiles ==
  "p20" :> [max_weekly_hours |-> 20, max_daily_hours |-> 8,
            max_consecutive_days |-> 6, min_rest_hours |-> 12]

\* AlgorithmConfig entity of the tenant, if any, with the request overrides
Configurations ==
  { [entity |-> EmptyDict, constraints |-> EmptyDict],
    [entity |-> ("penalty_unassigned" :> 100) @@ ("fairness_weight" :> 50)
                  @@ ("max_hours_weekly" :> 16),
     constraints |-> ("min_rest_hours" :> 11)] }

\* a tenant with stored weights, and requests with and without weights
StoredConfigurations ==
  { [entity |-> ("penalty_unassigned" :> 100) @@ ("fairness_weight" :> 50)
                  @@ ("max_hours_weekly" :> 16),
     constraints |-> EmptyDict],
    [entity |-> ("penalty_unassigned" :> 900) @@ ("fairness_weight" :> 120)
                  @@ ("max_hours_weekly" :> 40),
     constraints |-> EmptyDict],
    [entity |-> EmptyDict,
     constraints |-> ("penalty_unassigned" :> 200) @@ ("fairnessWeight" :> 90)] }

\* ------------------------------------------------------------------------
\* Inputs of the demand generation
\* ------------------------------------------------------------------------
Activity(id, name) == [id |-> id, name |-> name]

Prediction(date, act, hours, start, dur) ==
  [date |-> date, activity_id |-> act, predicted_hours |-> hours,
   typical_start_hour |-> start, typical_duration |-> dur]

ActivityLists == { <<>>, <<Activity(<<"a", "1">>, <<"c", "a", "s", "h", " ">>)>> }

\* predictions; hours in quarters of an hour (9h from 08:00 in blocks of 4h,
\* 2h from 22:00 in blocks of 6h)
PredictionPool ==
  << Prediction(0, <<"a", "1">>, 36, 32, 16),
     Prediction(1, <<"b">>, 8, 88, 24) >>

MaxPredictions == 2

\* one prediction more than the capacity guard lets through; the last one is
\* the only one of its day
LargeDemand ==
  [k \in 1..(PREDICTION_LIMIT + 1) |->
     Prediction(IF k <= PREDICTION_LIMIT THEN 0 ELSE 1, <<"a", "1">>, 8, 32, 16)]

\* what the demand oracle does when it is called: it raises, or it returns
\* a list of predictions.  The oracle is taken at the interface of the call
\* of engine.py 172, predict_demand(start_dt, end_dt, activity_ids=...);
\* ForecastingService.predict_demand of forecasting_service.py 464 takes no
\* activity_ids, so with that implementation only the raising behaviour
\* occurs and the fallback of engine.py 248 is taken
OracleBehaviours ==
  {[raises |-> TRUE, predictions |-> <<>>]}
  \cup {[raises |-> FALSE, predictions |-> pd] :
          pd \in Selections(PredictionPool, MaxPredictions)}

Slot(start, end, quantity, role) ==
  [start_time |-> start, end_time |-> end, quantity |-> quantity, role |-> role]

DemandProfiles ==
  { <<>>,
    << [act_id |-> <<"a", "1">>,
        patterns |-> (0 :> << Slot(<<9, 0>>, <<13, 0>>, 2, <<"C", "A", "S", "H">>),
                              Slot(<<13, 0>>, <<13, 30>>, 1, <<"C", "A", "S", "H">>) >>)] >> }

Horizons == { <<0, 0>>, <<0, 1>>, <<5, 6>> }

\* the staff of the requests that carry no shift
ForecastStaff == SubSeq(EmployeePool, 1, 2)

\* a problem above the size ceiling (21 employees, a twentieth of the
\* ceiling in shifts) in which no employee has the role of any shift
LargeStaff ==
  [i \in 1..21 |->
     Employee(ToString(i), <<ToString(i)>>, <<"C", "O", "O", "K">>, NoDate, NoDate, None)]

LargeShiftList ==
  [i \in 1..(MAX_PROBLEM_SIZE \div 20) |->
     Shift(ToString(i), 0, <<9, 0>>, <<13, 0>>, <<"C", "A", "S", "H">>)]

\* ------------------------------------------------------------------------
\* solve_schedule as the worker sees it: what a call returns or raises
\* ------------------------------------------------------------------------
\* engine.py 792-901 for one solver outcome
solve_return(outcome, x, emps, shifts) ==
  IF diagnostics_raise(outcome, emps)
  THEN [error |-> "KeyError", results |-> <<>>]
  ELSE [error |-> None, results |-> materialize(outcome, x, emps, shifts)]

\* engine.py 376-901 for a list of required shifts
solve_shifts(emps, shifts, unavs, labor_profiles, entity, fairness_weight) ==
  IF Len(emps) * Len(shifts) > MAX_PROBLEM_SIZE
  THEN {[error |-> "MemoryError", results |-> <<>>]}
  ELSE LET x == viable_pairs(emps, shifts)
       IN {solve_return(o, x, emps, shifts) :
             o \in solver_outcomes(x, emps, shifts, unavs, labor_profiles, entity,
                                   fairness_weight)}

\* the requests stored with a job: one with a shift and an employee without
\* role, one without shifts over a weekend
JobPayloads ==
  << [employees |-> <<EmployeePool[4]>>, required_shifts |-> <<ShiftPool[1]>>,
      start_date |-> 0, end_date |-> 0],
     [employees |-> <<EmployeePool[1]>>, required_shifts |-> <<>>,
      start_date |-> 5, end_date |-> 6] >>

\* solve_schedule(employees, required_shifts, ...) called by the worker, for
\* a tenant without stored configuration, demand profile or predictions
solve_schedule(req) ==
  LET emps == deduplicate(req.employees)
      demand == IF req.required_shifts # <<>> THEN {req.required_shifts}
                ELSE fallback_shifts(<<>>, emps, <<>>, req.start_date, req.end_date)
  IN UNION {solve_shifts(emps, shifts, <<>>, LaborProfiles, EmptyDict,
                         effective_fairness_weight(EmptyDict, EmptyDict)) :
              shifts \in demand}

\* ------------------------------------------------------------------------
\* State
\* ------------------------------------------------------------------------
MaxJobs == 2
MaxInvocations == 2

JobIds == 1..MaxJobs

\* concurrent executions of the worker endpoint
Invocations == 1..MaxInvocations

VARIABLES
  pc,                \* position of the call of solve_schedule
  req_employees,     \* the employees of the request, as the caller holds them
  employees, required_shifts, unavailabilities, constraints,
  start_date, end_date, activities,          \* arguments of solve_schedule
  entity, labor_profiles,                    \* datastore: AlgorithmConfig, LaborProfile
  oracle,                                    \* what predict_demand answers
  demand_profile,                            \* datastore: DemandProfile
  penalty_unassigned, fairness_weight,       \* locals of solve_schedule
  x, outcome, results, error,
  system_status,                             \* datastore: SystemStatus "status"
  jobs,                                      \* datastore: AsyncJob entities
  tasks,                                     \* Cloud Tasks queue: job ids
  worker,                                    \* the executions of solve_worker
  solver_proc,                               \* concurrent calls of solve_schedule
  trainer_proc,                              \* retrain requests and their training
  status_age,                                \* minutes since the last put of SystemStatus
  scorer_pc,                                 \* position of the scoring of one pair
  scorer_in,                                 \* arguments of the calls of extract_features
  features,                                  \* what each call of extract_features returned
  final_score,                               \* what predict_affinity and predict_batch return
  chunk_pc,                                  \* position in the chunking loop of one prediction
  chunk_item,                                \* the prediction being chunked
  remaining,                                 \* hours not yet put into a block, in quarters
  block,                                     \* the block appended last
  chunked                                    \* sum of the blocks appended so far

solver_vars == <<pc, req_employees, employees, required_shifts, unavailabilities,
                 constraints, start_date, end_date, activities, entity, labor_profiles,
                 oracle, demand_profile, penalty_unassigned, fairness_weight,
                 x, outcome, results, error, system_status>>

job_vars == <<jobs, tasks, worker>>

flag_vars == <<solver_proc, trainer_proc, status_age>>

scorer_vars == <<scorer_pc, scorer_in, features, final_score>>

chunk_vars == <<chunk_pc, chunk_item, remaining, block, chunked>>

vars == <<solver_vars, job_vars, flag_vars, scorer_vars, chunk_vars>>

args == <<req_employees, employees, required_shifts, unavailabilities, constraints,
          start_date, end_date, activities>>

stores == <<entity, labor_profiles, oracle, demand_profile>>

\* an AsyncJob key without entity
NoJob == [status |-> "absent", error |-> None, result |-> <<>>, payload |-> 0]

Idle == [pc |-> "idle", job_id |-> 0, job |-> NoJob, result |-> <<>>, error |-> None]

InitJobs ==
  /\ jobs = [j \in JobIds |-> NoJob]
  /\ tasks = {}
  /\ worker = [w \in Invocations |-> Idle]

MaxSolves == 2
MaxRetrains == 1

\* concurrent calls of solve_schedule that write the running flag
SolveIds == 1..MaxSolves

\* concurrent requests POST /retrain, each with its background training
RetrainIds == 1..MaxRetrains

\* a call of solve_schedule as far as the flag goes: pc, the entity read by
\* update_status, and whether one of its puts has written back a status
\* that a concurrent writer had replaced in between
IdleSolve == [pc |-> "idle", status |-> None, stale_write |-> FALSE]

IdleRetrain == [pc |-> "idle", status |-> None, answer |-> None]

InitFlag ==
  /\ solver_proc = [p \in SolveIds |-> IdleSolve]
  /\ trainer_proc = [p \in RetrainIds |-> IdleRetrain]
  /\ status_age = 0

\* ------------------------------------------------------------------------
\* Inputs of the affinity scorer (scorer/model.py)
\* ------------------------------------------------------------------------
\* float('nan'), next to scores that are thousandths in 0..1000
NaN == -1

ScorerEmployees ==
  { [id |-> "e1", role |-> <<"D", "e", "v", "e", "l", "o", "p", "e", "r">>, address |-> "Via Roma 1", project_ids |-> {"p1"}],
    [id |-> "e2", role |-> <<"c", "l", "e", "a", "n", "e", "r">>, address |-> "", project_ids |-> {}],
    [id |-> "e3", role |-> <<"W", "o", "r", "k", "e", "r">>, address |-> "", project_ids |-> {}] }

\* the role of the shift as the request writes it; <<>> is a missing or empty role
ScorerRoles ==
  { <<"D", "E", "V", "E", "L", "O", "P", "E", "R">>, <<"d", "e", "v", "e", "l", "o", "p", "e", "r", " ">>, <<"s", "v", "i", "l", "u", "p", "p", "a", "t", "o", "r", "e">>,
    <<>>, <<" ">>, <<"M", "a", "n", "a", "g", "e", "r">> }

CustomerAddresses == {"", "via roma 1", "Via Milano 2"}

ShiftProjects == {"", "p1"}

\* the candidate-role lists a caller may pass as all_roles; <<>> is None
RoleLists == { <<>>, <<<<"M", "A", "N", "A", "G", "E", "R">>, <<"C", "L", "E", "A", "N", "E", "R">>>>, <<<<"D", "E", "V", "E", "L", "O", "P", "E", "R">>>> }

\* the mappings argument: None, or a path for the distance feature
Mappings == { [k \in {} |-> <<>>], [k \in {"distance"} |-> <<"address">>] }

\* what model.predict can answer: a probability, or NaN from diverged weights
NeuralScores == {0, 500, 700, 850, 901, 1000, NaN}

Calls == {1, 2}

\* one worker and one shift to score, with the model enabled
InitScorer ==
  /\ scorer_pc = "start"
  /\ \E emp \in ScorerEmployees, r \in ScorerRoles, addr \in CustomerAddresses,
        proj \in ShiftProjects, m \in Mappings :
       scorer_in = [emp |-> emp,
                    shift |-> <<[role |-> r, customer_address |-> addr, project |-> proj]>>,
                    all_roles |-> << <<>> >>,
                    mappings |-> m]
  /\ features = [k \in Calls |-> <<>>]
  /\ final_score = [affinity |-> <<>>, batch |-> <<>>]

\* no pair is being scored
InitScorerIdle ==
  /\ scorer_pc = "idle"
  /\ scorer_in = [emp |-> CHOOSE e \in ScorerEmployees : e.id = "e1",
                  shift |-> << >>, all_roles |-> << >>, mappings |-> [k \in {} |-> <<>>]]
  /\ features = [k \in Calls |-> <<>>]
  /\ final_score = [affinity |-> <<>>, batch |-> <<>>]

\* the request carries shifts: the oracle and the profile are not consulted
InitProvided ==
  /\ employees \in OrderedSelections(EmployeePool, MaxEmployees)
  /\ required_shifts \in OrderedSelections(ShiftPool, MaxShifts) \ {<<>>}
  /\ unavailabilities \in Selections(UnavailabilityPool, MaxUnavailabilities)
  /\ \E c \in Configurations : entity = c.entity /\ constraints = c.constraints
  /\ start_date = 0
  /\ end_date = 0
  /\ activities = <<>>
  /\ oracle = [raises |-> TRUE, predictions |-> <<>>]
  /\ demand_profile = <<>>

\* ------------------------------------------------------------------------
\* Inputs of the chunking loop (engine.py 184-212); hours are quarters
\* ------------------------------------------------------------------------
MaxPredictedHours == 60

\* the hours the regressor predicts for one activity and day
PredictedHours == 0..MaxPredictedHours

\* medians of the hours worked per activity (forecasting_service.py 518):
\* 1h, 2h, 4h, 6h, 10h, 14h
DurationStats == {4, 8, 16, 24, 40, 56}

\* forecasting_service.py 544: the median clipped to [2h, 10h]
typical_duration_unclipped(stat) == stat

typical_duration(stat) == Max(8, Min(40, stat))

\* forecasting_service.py 584-594: the items predict_demand returns, those
\* of at least 2 predicted hours
OracleItems ==
  {[predicted_hours |-> h, typical_duration |-> typical_duration(stat), by |-> "oracle"] :
     h \in {g \in PredictedHours : g >= 8}, stat \in DurationStats}

\* items of a forecaster that does not clip: engine.py 197 takes
\* item.get("typical_duration", 6.0) as it comes
ForeignItems ==
  {[predicted_hours |-> h, typical_duration |-> 0, by |-> "other"] : h \in PredictedHours}

InitChunk ==
  /\ chunk_pc = "start"
  /\ chunk_item \in OracleItems \cup ForeignItems
  /\ remaining = 0
  /\ block = 0
  /\ chunked = 0

\* no prediction is being chunked
InitChunkIdle ==
  /\ chunk_pc = "idle"
  /\ chunk_item = [predicted_hours |-> 0, typical_duration |-> 24, by |-> "oracle"]
  /\ remaining = 0
  /\ block = 0
  /\ chunked = 0

\* Requests of one worker: fragments of one day (two touching half hours
\* and a lone 45 minutes); a morning unavailability next to a morning and an
\* afternoon shift; and shifts on four days running, the second one 400
\* minutes after the first ends, the third one over midnight
ScenarioWorker == Employee("e1", <<"Mario", "Rossi">>, <<"C", "a", "s", "h", "i", "e", "r">>, NoDate, NoDate, None)

ScenarioRequests ==
  { [required_shifts |-> << Shift("a1", 0, <<9, 0>>, <<9, 30>>, <<"C", "a", "s", "h", "i", "e", "r">>),
                            Shift("a2", 0, <<9, 30>>, <<10, 0>>, <<"C", "a", "s", "h", "i", "e", "r">>),
                            Shift("a3", 0, <<14, 0>>, <<14, 45>>, <<"C", "a", "s", "h", "i", "e", "r">>) >>,
     unavailabilities |-> <<>>],
    [required_shifts |-> << Shift("c1", 0, <<9, 0>>, <<13, 0>>, <<"C", "a", "s", "h", "i", "e", "r">>),
                            Shift("c2", 0, <<14, 0>>, <<18, 0>>, <<"C", "a", "s", "h", "i", "e", "r">>) >>,
     unavailabilities |-> << [employee_id |-> "e1", date |-> 0,
                              start_time |-> <<9, 0>>, end_time |-> <<12, 0>>] >>],
    [required_shifts |-> << Shift("c1", 0, <<9, 0>>, <<13, 0>>, <<"C", "a", "s", "h", "i", "e", "r">>),
                            Shift("c3", 1, <<9, 0>>, <<13, 0>>, <<"C", "a", "s", "h", "i", "e", "r">>) >>,
     unavailabilities |-> << [employee_id |-> "e1", date |-> 0,
                              start_time |-> <<>>, end_time |-> <<>>] >>],
    [required_shifts |-> << Shift("d1", 0, <<13, 0>>, <<21, 0>>, <<"C", "a", "s", "h", "i", "e", "r">>),
                            Shift("d2", 1, <<3, 40>>, <<11, 40>>, <<"C", "a", "s", "h", "i", "e", "r">>),
                            Shift("d3", 2, <<22, 0>>, <<6, 0>>, <<"C", "a", "s", "h", "i", "e", "r">>),
                            Shift("d4", 3, <<17, 0>>, <<21, 0>>, <<"C", "a", "s", "h", "i", "e", "r">>) >>,
     unavailabilities |-> <<>>] }

InitScenario ==
  /\ employees = <<ScenarioWorker>>
  /\ \E r \in ScenarioRequests : /\ required_shifts = r.required_shifts
                                 /\ unavailabilities = r.unavailabilities
  /\ entity = EmptyDict
  /\ constraints = EmptyDict
  /\ start_date = 0
  /\ end_date = 0
  /\ activities = <<>>
  /\ oracle = [raises |-> TRUE, predictions |-> <<>>]
  /\ demand_profile = <<>>

\* a tenant with stored weights
InitStored ==
  /\ employees \in OrderedSelections(ForecastStaff, MaxEmployees)
  /\ required_shifts \in OrderedSelections(SubSeq(ShiftPool, 1, 2), MaxShifts) \ {<<>>}
  /\ unavailabilities = <<>>
  /\ \E c \in StoredConfigurations : entity = c.entity /\ constraints = c.constraints
  /\ start_date = 0
  /\ end_date = 0
  /\ activities = <<>>
  /\ oracle = [raises |-> TRUE, predictions |-> <<>>]
  /\ demand_profile = <<>>

\* the request carries no shift: the demand is generated
InitForecast ==
  /\ employees \in OrderedSelections(ForecastStaff, MaxEmployees)
  /\ required_shifts = <<>>
  /\ unavailabilities = <<>>
  /\ \E c \in Configurations : entity = c.entity /\ constraints = c.constraints
  /\ \E h \in Horizons : start_date = h[1] /\ end_date = h[2]
  /\ activities \in ActivityLists
  /\ oracle \in OracleBehaviours
  /\ demand_profile \in DemandProfiles

\* a request above the size ceiling
InitLarge ==
  /\ employees = LargeStaff
  /\ required_shifts = LargeShiftList
  /\ unavailabilities = <<>>
  /\ entity = EmptyDict
  /\ constraints = EmptyDict
  /\ start_date = 0
  /\ end_date = 0
  /\ activities = <<>>
  /\ oracle = [raises |-> TRUE, predictions |-> <<>>]
  /\ demand_profile = <<>>

\* the oracle predicts more than the capacity guard lets through
InitLargeDemand ==
  /\ employees = <<>>
  /\ required_shifts = <<>>
  /\ unavailabilities = <<>>
  /\ entity = EmptyDict
  /\ constraints = EmptyDict
  /\ start_date = 0
  /\ end_date = 1
  /\ activities = <<>>
  /\ oracle = [raises |-> FALSE, predictions |-> LargeDemand]
  /\ demand_profile = <<>>

InitSolver ==
  /\ pc = "start"
  /\ req_employees = employees
  /\ labor_profiles = LaborProfiles
  /\ penalty_unassigned = 0
  /\ fairness_weight = 0
  /\ x = {}
  /\ outcome = [status |-> "NOT_SOLVED", values |-> NoValues, is_isolated |-> {}]
  /\ results = <<>>
  /\ error = None
  /\ system_status = "idle"

Init ==
  /\ (InitProvided \/ InitStored \/ InitScenario \/ InitForecast \/ InitLarge
        \/ InitLargeDemand)
  /\ InitSolver
  /\ InitJobs
  /\ InitFlag
  /\ InitScorerIdle
  /\ InitChunkIdle

\* ------------------------------------------------------------------------
\* solve_schedule, step by step
\* ------------------------------------------------------------------------
\* engine.py 26-146: set_running(True), de-duplication, configuration
Prepare ==
  /\ pc = "start"
  /\ system_status' = "running"
  /\ employees' = deduplicate(employees)
  /\ penalty_unassigned' = effective_penalty_unassigned(entity, constraints)
  /\ fairness_weight' = effective_fairness_weight(entity, constraints)
  /\ pc' = IF required_shifts = <<>> THEN "forecast" ELSE "demand"
  /\ UNCHANGED <<req_employees, required_shifts, unavailabilities, constraints,
                 start_date, end_date, activities, stores, x, outcome, results, error,
                 job_vars, flag_vars, scorer_vars, chunk_vars>>

\* engine.py 152-240: the oracle answers with predictions
ForecastDemand ==
  /\ pc = "forecast"
  /\ ~oracle.raises
  /\ oracle.predictions # <<>>
  /\ required_shifts' = forecast_shifts(oracle.predictions, activities)
  /\ pc' = "demand"
  /\ UNCHANGED <<req_employees, employees, unavailabilities, constraints, start_date, end_date,
                 activities, stores, penalty_unassigned, fairness_weight,
                 x, outcome, results, error, system_status, job_vars, flag_vars, scorer_vars, chunk_vars>>

\* engine.py 243-372: the oracle raised or predicted nothing
FallbackDemand ==
  /\ pc = "forecast"
  /\ (oracle.raises \/ oracle.predictions = <<>>)
  /\ \E generated \in fallback_shifts(demand_profile, employees, activities,
                                        start_date, end_date) :
       required_shifts' = generated
  /\ activities' = IF demand_profile # <<>>
                   THEN profile_activities(demand_profile, activities)
                   ELSE activities
  /\ pc' = "demand"
  /\ UNCHANGED <<req_employees, employees, unavailabilities, constraints, start_date, end_date,
                 stores, penalty_unassigned, fairness_weight,
                 x, outcome, results, error, system_status, job_vars, flag_vars, scorer_vars, chunk_vars>>

\* engine.py 376-431: unassigned variables, size check, sparse pair variables;
\* the finally clause (engine.py 900-901) runs when the check raises
CreateVariables ==
  /\ pc = "demand"
  /\ IF Len(employees) * Len(required_shifts) > MAX_PROBLEM_SIZE
     THEN /\ pc' = "raised"
          /\ error' = "MemoryError"
          /\ system_status' = "complete"
          /\ x' = x
     ELSE /\ pc' = "vars"
          /\ x' = viable_pairs(employees, required_shifts)
          /\ UNCHANGED <<error, system_status>>
  /\ UNCHANGED <<args, stores, penalty_unassigned, fairness_weight,
                 outcome, results, job_vars, flag_vars, scorer_vars, chunk_vars>>

\* engine.py 462-901: constraints, objective, solver.Solve, diagnostics,
\* results, set_running(False)
Solve ==
  /\ pc = "vars"
  /\ \E o \in solver_outcomes(x, employees, required_shifts, unavailabilities,
                              labor_profiles, entity, fairness_weight) :
       LET ret == solve_return(o, x, employees, required_shifts)
       IN /\ outcome' = o
          /\ results' = ret.results
          /\ error' = ret.error
          /\ pc' = IF ret.error = None THEN "returned" ELSE "raised"
  /\ system_status' = "complete"
  /\ UNCHANGED <<args, stores, penalty_unassigned, fairness_weight, x, job_vars, flag_vars, scorer_vars, chunk_vars>>

SolverNext ==
  \/ Prepare
  \/ ForecastDemand
  \/ FallbackDemand
  \/ CreateVariables
  \/ Solve

Next == SolverNext

Spec == Init /\ [][Next]_vars

\* ------------------------------------------------------------------------
\* The job controller: POST /schedule/generate (schedule.py 51-92) and
\* POST /worker/solve (worker.py 15-185)
\* ------------------------------------------------------------------------
\* no call of solve_schedule is followed step by step here: the worker's call
\* is the operator solve_schedule
InitNoCall ==
  /\ pc = "idle"
  /\ req_employees = <<>>
  /\ employees = <<>>
  /\ required_shifts = <<>>
  /\ unavailabilities = <<>>
  /\ entity = EmptyDict
  /\ constraints = EmptyDict
  /\ start_date = 0
  /\ end_date = 0
  /\ activities = <<>>
  /\ oracle = [raises |-> TRUE, predictions |-> <<>>]
  /\ demand_profile = <<>>
  /\ labor_profiles = LaborProfiles
  /\ penalty_unassigned = 0
  /\ fairness_weight = 0
  /\ x = {}
  /\ outcome = [status |-> "NOT_SOLVED", values |-> NoValues, is_isolated |-> {}]
  /\ results = <<>>
  /\ error = None
  /\ system_status = "idle"

JobInit == InitNoCall /\ InitJobs /\ InitFlag /\ InitScorerIdle /\ InitChunkIdle

call_vars == <<pc, req_employees, employees, required_shifts, unavailabilities,
               constraints, start_date, end_date, activities, entity, labor_profiles,
               oracle, demand_profile, penalty_unassigned, fairness_weight,
               x, outcome, results, error>>

\* schedule.py 57-82: the job is stored as queued, then the task is created
Submit(j, p) ==
  /\ jobs[j].status = "absent"
  /\ jobs' = [jobs EXCEPT ![j] = [status |-> "queued", error |-> None,
                                  result |-> <<>>, payload |-> p]]
  /\ tasks' = tasks \cup {j}
  /\ UNCHANGED <<call_vars, flag_vars, scorer_vars, chunk_vars, system_status, worker>>

\* schedule.py 70 and 88-92: client.put succeeded, enqueue_task raises and
\* the endpoint answers 500
SubmitEnqueueFails(j, p) ==
  /\ jobs[j].status = "absent"
  /\ jobs' = [jobs EXCEPT ![j] = [status |-> "queued", error |-> None,
                                  result |-> <<>>, payload |-> p]]
  /\ UNCHANGED <<call_vars, flag_vars, scorer_vars, chunk_vars, system_status, tasks, worker>>

\* worker.py 21-30: a delivery of the task of job j starts an execution;
\* the queue keeps the task until an execution has answered
WorkerGet(w, j) ==
  /\ worker[w].pc = "idle"
  /\ j \in tasks
  /\ worker' = [worker EXCEPT ![w] =
                  IF jobs[j].status = "absent" THEN Idle
                  ELSE [pc |-> "got", job_id |-> j, job |-> jobs[j],
                        result |-> <<>>, error |-> None]]
  /\ UNCHANGED <<call_vars, flag_vars, scorer_vars, chunk_vars, system_status, jobs, tasks>>

\* worker.py 32-35: job["status"] = "processing"; client.put(job)
WorkerPutProcessing(w) ==
  /\ worker[w].pc = "got"
  /\ LET job == [worker[w].job EXCEPT !.status = "processing"]
     IN /\ worker' = [worker EXCEPT ![w].job = job, ![w].pc = "processing"]
        /\ jobs' = [jobs EXCEPT ![worker[w].job_id] = job]
  /\ UNCHANGED <<call_vars, flag_vars, scorer_vars, chunk_vars, system_status, tasks>>

\* worker.py 35: client.put raises before the try block is entered; the
\* endpoint answers 500 and the queue keeps the task
WorkerPutProcessingFails(w) ==
  /\ worker[w].pc = "got"
  /\ worker' = [worker EXCEPT ![w] = Idle]
  /\ UNCHANGED <<call_vars, flag_vars, scorer_vars, chunk_vars, system_status, jobs, tasks>>

\* worker.py 133 and engine.py 26: solve_schedule is entered
WorkerEnterSolve(w) ==
  /\ worker[w].pc = "processing"
  /\ system_status' = "running"
  /\ worker' = [worker EXCEPT ![w].pc = "solving"]
  /\ UNCHANGED <<call_vars, flag_vars, scorer_vars, chunk_vars, jobs, tasks>>

\* what solve_schedule can answer to each payload (worker.py 133-142)
solve_outcomes == [p \in 1..Len(JobPayloads) |-> solve_schedule(JobPayloads[p])]

\* engine.py 890-901: solve_schedule returns or raises
WorkerLeaveSolve(w) ==
  /\ worker[w].pc = "solving"
  /\ \E ret \in solve_outcomes[worker[w].job.payload] :
       worker' = [worker EXCEPT ![w].pc = "solved", ![w].result = ret.results,
                                ![w].error = ret.error]
  /\ system_status' = "complete"
  /\ UNCHANGED <<call_vars, flag_vars, scorer_vars, chunk_vars, jobs, tasks>>

\* worker.py 144-183: the outcome is written to the job entity
WorkerSave(w) ==
  /\ worker[w].pc = "solved"
  /\ LET job == IF worker[w].error # None
                THEN [worker[w].job EXCEPT !.status = "failed", !.error = worker[w].error]
                ELSE IF worker[w].result # <<>>
                THEN [worker[w].job EXCEPT !.status = "completed",
                                           !.result = worker[w].result]
                ELSE [worker[w].job EXCEPT !.status = "failed",
                                           !.error = "Infeasible or No Solution"]
     IN /\ worker' = [worker EXCEPT ![w].job = job, ![w].pc = "saved"]
        /\ jobs' = [jobs EXCEPT ![worker[w].job_id] = job]
  /\ UNCHANGED <<call_vars, flag_vars, scorer_vars, chunk_vars, system_status, tasks>>

\* worker.py 167 or 174 and 176-183: client.put of the outcome raises, the
\* handler marks the job failed with str(e) and its client.put succeeds
WorkerSaveHandled(w) ==
  /\ worker[w].pc = "solved"
  /\ worker[w].error = None
  /\ LET job == [worker[w].job EXCEPT
                   !.status = "failed", !.error = "DatastoreError",
                   !.result = IF worker[w].result # <<>> THEN worker[w].result ELSE @]
     IN /\ worker' = [worker EXCEPT ![w].job = job, ![w].pc = "saved"]
        /\ jobs' = [jobs EXCEPT ![worker[w].job_id] = job]
  /\ UNCHANGED <<call_vars, flag_vars, scorer_vars, chunk_vars, system_status, tasks>>

\* worker.py 183: client.put of the handler raises; the exception leaves
\* solve_worker, the endpoint answers 500 and the queue keeps the task
WorkerSaveFails(w) ==
  /\ worker[w].pc = "solved"
  /\ worker' = [worker EXCEPT ![w] = Idle]
  /\ UNCHANGED <<call_vars, flag_vars, scorer_vars, chunk_vars, system_status, jobs, tasks>>

\* worker.py 185: the answer {"status": "ok"} acknowledges the task
WorkerReturn(w) ==
  /\ worker[w].pc = "saved"
  /\ tasks' = tasks \ {worker[w].job_id}
  /\ worker' = [worker EXCEPT ![w] = Idle]
  /\ UNCHANGED <<call_vars, flag_vars, scorer_vars, chunk_vars, system_status, jobs>>

\* schedule.py 94-140: GET /job/{job_id} reads the entity and answers its
\* stored status; it writes nothing
get_job_status(job) == job.status

JobNext ==
  \/ \E j \in JobIds, p \in 1..Len(JobPayloads) : Submit(j, p)
  \/ \E j \in JobIds, p \in 1..Len(JobPayloads) : SubmitEnqueueFails(j, p)
  \/ \E w \in Invocations, j \in JobIds : WorkerGet(w, j)
  \/ \E w \in Invocations : WorkerPutProcessing(w)
  \/ \E w \in Invocations : WorkerPutProcessingFails(w)
  \/ \E w \in Invocations : WorkerEnterSolve(w)
  \/ \E w \in Invocations : WorkerLeaveSolve(w)
  \/ \E w \in Invocations : WorkerSave(w)
  \/ \E w \in Invocations : WorkerSaveHandled(w)
  \/ \E w \in Invocations : WorkerSaveFails(w)
  \/ \E w \in Invocations : WorkerReturn(w)

JobSpec == JobInit /\ [][JobNext]_vars

\* any step of the execution w of solve_worker outside solve_schedule
WorkerStep(w) ==
  \/ \E j \in JobIds : WorkerGet(w, j)
  \/ WorkerPutProcessing(w)
  \/ WorkerPutProcessingFails(w)
  \/ WorkerEnterSolve(w)
  \/ WorkerSave(w)
  \/ WorkerSaveHandled(w)
  \/ WorkerSaveFails(w)
  \/ WorkerReturn(w)

\* an execution of the worker goes on until it ends, the queue delivers a
\* task it holds (cloud_tasks.py 10-51) and a call of solve_schedule ends
\* (the search is limited by solve_timeout, engine.py 785-788); whether a
\* datastore put succeeds is not scheduled
JobFairness ==
  /\ \A w \in Invocations : WF_vars(WorkerStep(w))
  /\ \A w \in Invocations : []<>(worker[w].pc # "solving")

JobLive == JobSpec /\ JobFairness

\* ------------------------------------------------------------------------
\* The running flag: SystemStatus "status" (status_manager.py), written by
\* solve_schedule (engine.py 26, 900-901), by POST /retrain and its
\* background training (training.py 199-385) and at startup (main.py 78-88)
\* ------------------------------------------------------------------------
\* the status a put of set_running stores whatever entity it has read
set_running_stuck(is_running) == "running"

\* status_manager.py 63-79: status["status"] of the entity that is put; the
\* entity read at line 66 only supplies the other fields
set_running(is_running) == IF is_running THEN "running" ELSE "complete"

\* status_manager.py 23-49: the entity read at line 28 is put back at line
\* 49 with message, progress, phase and logs changed and its status as read
update_status(status) == status

\* status_manager.py 51-61: the dict answered by get_status has the keys
\* status, progress, message, phase, logs and details
get_status(raw) == "status" :> raw

STALE_SECONDS == 300

\* training.py 361-372: status.get("last_updated") and the age test
is_stale(status, now) ==
  LET last_upd == get(status, "last_updated", None)
  IN IF last_upd = None THEN FALSE ELSE (now - last_upd) * 60 > STALE_SECONDS

\* the clock stops one minute after the flag has become stale
MaxAge == STALE_SECONDS \div 60 + 1

Tick ==
  /\ status_age < MaxAge
  /\ status_age' = status_age + 1
  /\ UNCHANGED <<solver_vars, job_vars, scorer_vars, chunk_vars, solver_proc, trainer_proc>>

\* main.py 78-88 and training.py 189-196: a starting process clears the flag
Startup ==
  /\ system_status' = set_running(FALSE)
  /\ status_age' = 0
  /\ UNCHANGED <<call_vars, job_vars, scorer_vars, chunk_vars, solver_proc, trainer_proc>>

\* engine.py 26: set_running(True) on entry, without reading the flag
SolveEnter(p) ==
  /\ solver_proc[p].pc = "idle"
  /\ system_status' = set_running(TRUE)
  /\ status_age' = 0
  /\ solver_proc' = [solver_proc EXCEPT ![p] = [IdleSolve EXCEPT !.pc = "solving"]]
  /\ UNCHANGED <<call_vars, job_vars, scorer_vars, chunk_vars, trainer_proc>>

\* status_manager.py 28: update_status, called all along solve_schedule,
\* reads the entity
SolveUpdateRead(p) ==
  /\ solver_proc[p].pc = "solving"
  /\ solver_proc' = [solver_proc EXCEPT ![p].pc = "updating", ![p].status = system_status]
  /\ UNCHANGED <<solver_vars, job_vars, scorer_vars, chunk_vars, trainer_proc, status_age>>

\* status_manager.py 49: update_status puts the entity it has read
SolveUpdatePut(p) ==
  /\ solver_proc[p].pc = "updating"
  /\ system_status' = update_status(solver_proc[p].status)
  /\ status_age' = 0
  /\ solver_proc' = [solver_proc EXCEPT
                       ![p].pc = "solving", ![p].status = None,
                       ![p].stale_write = @ \/ system_status # solver_proc[p].status]
  /\ UNCHANGED <<call_vars, job_vars, scorer_vars, chunk_vars, trainer_proc>>

\* engine.py 900-901: finally set_running(False), on return and on exception
SolveExit(p) ==
  /\ solver_proc[p].pc = "solving"
  /\ system_status' = set_running(FALSE)
  /\ status_age' = 0
  /\ solver_proc' = [solver_proc EXCEPT ![p].pc = "idle"]
  /\ UNCHANGED <<call_vars, job_vars, scorer_vars, chunk_vars, trainer_proc>>

\* training.py 359-379: retrain_model reads the flag; running and not stale
\* answers busy, running and stale resets the flag
RetrainCheck(p) ==
  /\ trainer_proc[p].pc = "idle"
  /\ LET status == get_status(system_status)
     IN IF status["status"] = "running"
        THEN IF ~is_stale(status, status_age)
             THEN /\ trainer_proc' = [trainer_proc EXCEPT ![p].answer = "busy"]
                  /\ UNCHANGED <<system_status, status_age>>
             ELSE /\ trainer_proc' = [trainer_proc EXCEPT ![p].pc = "admitted",
                                                          ![p].answer = None]
                  /\ system_status' = set_running(FALSE)
                  /\ status_age' = 0
        ELSE /\ trainer_proc' = [trainer_proc EXCEPT ![p].pc = "admitted",
                                                     ![p].answer = None]
             /\ UNCHANGED <<system_status, status_age>>
  /\ UNCHANGED <<call_vars, job_vars, scorer_vars, chunk_vars, solver_proc>>

\* training.py 381: set_running(True); the request goes on to answer
\* started and run_global_training sets the flag again (training.py 204)
RetrainStart(p) ==
  /\ trainer_proc[p].pc = "admitted"
  /\ system_status' = set_running(TRUE)
  /\ status_age' = 0
  /\ trainer_proc' = [trainer_proc EXCEPT ![p].pc = "training", ![p].answer = "started"]
  /\ UNCHANGED <<call_vars, job_vars, scorer_vars, chunk_vars, solver_proc>>

\* training.py 382, 205, 233, 330, 340: update_status reads the entity
TrainingUpdateRead(p) ==
  /\ trainer_proc[p].pc = "training"
  /\ trainer_proc' = [trainer_proc EXCEPT ![p].pc = "updating", ![p].status = system_status]
  /\ UNCHANGED <<solver_vars, job_vars, scorer_vars, chunk_vars, solver_proc, status_age>>

TrainingUpdatePut(p) ==
  /\ trainer_proc[p].pc = "updating"
  /\ system_status' = update_status(trainer_proc[p].status)
  /\ status_age' = 0
  /\ trainer_proc' = [trainer_proc EXCEPT ![p].pc = "training", ![p].status = None]
  /\ UNCHANGED <<call_vars, job_vars, scorer_vars, chunk_vars, solver_proc>>

\* training.py 213, 326, 346, 351: every end of run_global_training
TrainingExit(p) ==
  /\ trainer_proc[p].pc = "training"
  /\ system_status' = set_running(FALSE)
  /\ status_age' = 0
  /\ trainer_proc' = [trainer_proc EXCEPT ![p].pc = "idle"]
  /\ UNCHANGED <<call_vars, job_vars, scorer_vars, chunk_vars, solver_proc>>

FlagNext ==
  \/ Tick
  \/ Startup
  \/ \E p \in SolveIds : SolveEnter(p)
  \/ \E p \in SolveIds : SolveUpdateRead(p)
  \/ \E p \in SolveIds : SolveUpdatePut(p)
  \/ \E p \in SolveIds : SolveExit(p)
  \/ \E p \in RetrainIds : RetrainCheck(p)
  \/ \E p \in RetrainIds : RetrainStart(p)
  \/ \E p \in RetrainIds : TrainingUpdateRead(p)
  \/ \E p \in RetrainIds : TrainingUpdatePut(p)
  \/ \E p \in RetrainIds : TrainingExit(p)

FlagSpec == JobInit /\ [][FlagNext]_vars

\* ------------------------------------------------------------------------
\* The affinity scorer: extract_features, predict_affinity, predict_batch
\* (scorer/model.py).  Features and scores are thousandths: 1.0 is 1000.
\* ------------------------------------------------------------------------
\* the keyword table of normalize_role, in the order of its tests
RoleKeywords ==
  <<
     [keys |-> {<<"S", "V", "I", "L", "U", "P", "P", "A", "T", "O", "R", "E">>, <<"D", "E", "V">>},
      role |-> <<"D", "E", "V", "E", "L", "O", "P", "E", "R">>],
     [keys |-> {<<"P", "U", "L", "I", "Z", "I">>, <<"C", "L", "E", "A", "N">>},
      role |-> <<"C", "L", "E", "A", "N", "E", "R">>],
     [keys |-> {<<"O", "P", "E", "R", "A">>},
      role |-> <<"W", "O", "R", "K", "E", "R">>],
     [keys |-> {<<"M", "A", "N", "U", "T", "E", "N">>, <<"T", "E", "C", "N", "I", "C", "O">>},
      role |-> <<"M", "A", "I", "N", "T", "E", "N", "A", "N", "C", "E">>],
     [keys |-> {<<"C", "O", "O", "R", "D", "I", "N", "A">>, <<"R", "E", "S", "P", "O", "N", "S", "A", "B", "I", "L", "E">>, <<"A", "M", "M", "I", "N", "I", "S", "T", "R", "A">>, <<"M", "A", "N", "A", "G", "E", "R">>},
      role |-> <<"M", "A", "N", "A", "G", "E", "R">>],
     [keys |-> {<<"M", "A", "G", "A", "Z", "Z", "I", "N">>, <<"L", "O", "G", "I", "S", "T", "I", "C">>},
      role |-> <<"L", "O", "G", "I", "S", "T", "I", "C", "S">>],
     [keys |-> {<<"I", "M", "P", "I", "E", "G", "A", "T", "O">>, <<"S", "E", "G", "R", "E", "T", "A", "R", "I", "A">>, <<"U", "F", "F", "I", "C", "I", "O">>},
      role |-> <<"O", "F", "F", "I", "C", "E">>],
     [keys |-> {<<"A", "U", "T", "I", "S", "T", "A">>, <<"D", "R", "I", "V", "E", "R">>, <<"C", "O", "N", "S", "E", "G", "N", "A">>},
      role |-> <<"D", "R", "I", "V", "E", "R">>]
  >>

\* extract_features.normalize_role: a missing or empty role is WORKER; else
\* the role is uppercased and stripped, and the first keyword test that
\* succeeds names the role; a role without keyword stays as stripped
normalize_role(r) ==
  IF r = <<>> THEN WORKER
  ELSE LET u == strip(upper(r))
           hits == {i \in 1..Len(RoleKeywords) :
                      \E k \in RoleKeywords[i].keys : IsSubstring(k, u)}
       IN IF hits = {} THEN u
          ELSE RoleKeywords[CHOOSE i \in hits : \A j \in hits : i <= j].role

\* str.encode(): the byte of each character of a normalized role
Ord ==
  (" " :> 32) @@ ("A" :> 65) @@ ("B" :> 66) @@ ("C" :> 67) @@ ("D" :> 68) @@
  ("E" :> 69) @@ ("F" :> 70) @@ ("G" :> 71) @@ ("H" :> 72) @@ ("I" :> 73) @@
  ("J" :> 74) @@ ("K" :> 75) @@ ("L" :> 76) @@ ("M" :> 77) @@ ("N" :> 78) @@
  ("O" :> 79) @@ ("P" :> 80) @@ ("Q" :> 81) @@ ("R" :> 82) @@ ("S" :> 83) @@
  ("T" :> 84) @@ ("U" :> 85) @@ ("V" :> 86) @@ ("W" :> 87) @@ ("X" :> 88) @@
  ("Y" :> 89) @@ ("Z" :> 90)

RECURSIVE adler32_sums(_, _, _)
adler32_sums(s, a, b) ==
  IF s = <<>> THEN <<a, b>>
  ELSE LET a2 == (a + Ord[Head(s)]) % 65521
       IN adler32_sums(Tail(s), a2, (b + a2) % 65521)

\* zlib.adler32
adler32(s) == LET ab == adler32_sums(s, 1, 0) IN ab[2] * 65536 + ab[1]

\* feature 9: the hash of the normalized role of the shift; all_roles is a
\* parameter of extract_features that this computation does not read
role_idx_feature(shift, all_roles) == adler32(normalize_role(shift.role)) % 1000

\* extract_features.get_mapped_value for the features modelled here: the
\* first mapped path with a truthy value, else the default
get_mapped_value(e, feature_name, default, mappings) ==
  LET paths == IF feature_name \in DOMAIN mappings THEN mappings[feature_name] ELSE <<>>
      hits == {i \in 1..Len(paths) : paths[i] \in DOMAIN e /\ e[paths[i]] # ""}
  IN IF hits = {} THEN default
     ELSE e[paths[CHOOSE i \in hits : \A j \in hits : i <= j]]

\* str.lower() on the addresses used
LowerAddress ==
  ("Via Roma 1" :> "via roma 1") @@ ("via roma 1" :> "via roma 1") @@
  ("Via Milano 2" :> "via milano 2")

\* extract_features.get_distance
get_distance(emp_addr, cust_addr) ==
  IF emp_addr \in {None, ""} \/ cust_addr \in {None, ""} THEN 100
  ELSE IF LowerAddress[emp_addr] = LowerAddress[cust_addr] THEN 0
  ELSE 300

\* feature 1: equal or contained normalized roles
role_match_feature(emp, shift, mappings) ==
  LET raw_emp_role == IF "role_match" \in DOMAIN mappings
                      THEN get_mapped_value(emp, "role_match", emp.role, mappings)
                      ELSE emp.role
      shift_role_norm == normalize_role(shift.role)
      emp_role_norm == normalize_role(raw_emp_role)
  IN IF emp_role_norm = shift_role_norm THEN 1000
     ELSE IF IsSubstring(emp_role_norm, shift_role_norm)
             \/ IsSubstring(shift_role_norm, emp_role_norm) THEN 1000
     ELSE 0

\* feature 11
project_affinity(emp, shift, mappings) ==
  LET shift_proj_id == shift.project
      pref_proj == get_mapped_value(emp, "project_affinity", None, mappings)
  IN IF shift_proj_id # "" /\ shift_proj_id \in emp.project_ids THEN 1000
     ELSE IF pref_proj \notin {None, ""} /\ pref_proj = shift_proj_id THEN 1000
     ELSE 0

\* the features that the hybrid score and the role index are made of; the
\* other seven (time, day, age, punctuality, keywords, seniority, vehicle)
\* are read by the network only
extract_features(emp, shift, all_roles, mappings) ==
  [role_match |-> role_match_feature(emp, shift, mappings),
   dist_feature |-> get_distance(get_mapped_value(emp, "distance", None, mappings),
                                 shift.customer_address),
   role_idx_feature |-> role_idx_feature(shift, all_roles),
   project_affinity |-> project_affinity(emp, shift, mappings)]

\* Python's  a > b  on floats: false when either side is NaN
gt(a, b) == a # NaN /\ b # NaN /\ a > b

\* Python's max(a, b): b only if b > a
py_max(a, b) == IF gt(b, a) THEN b ELSE a

\* numpy.maximum: NaN if either side is NaN
np_maximum(a, b) == IF a = NaN \/ b = NaN THEN NaN ELSE IF a >= b THEN a ELSE b

\* numpy.nan_to_num(v, nan=0.5); scores are finite otherwise
nan_to_num(v) == IF v = NaN THEN 500 ELSE v

\* the heuristic of both predictors: 0.5, the role bonus or penalty, the
\* distance penalty, the project bonus, clamped to [0.01, 0.99]
heuristic_score(f) ==
  Max(10, Min(990, 500 + (IF f.role_match > 900 THEN 300 ELSE 0 - 400)
                       - (f.dist_feature * 2) \div 10
                       + (IF f.project_affinity > 900 THEN 100 ELSE 0)))

\* predict_affinity with the model enabled and model.predict answering n
predict_affinity(emp, shift, all_roles, mappings, n) ==
  LET h == heuristic_score(extract_features(emp, shift, all_roles, mappings))
  IN IF h > 700 THEN py_max(h, n)
     ELSE IF gt(n, 900) THEN n
     ELSE h

\* predict_batch with the model enabled and model.predict answering the
\* column neural_scores for the rows of X
predict_batch(X, neural_scores) ==
  [i \in 1..Len(X) |->
     LET h == heuristic_score(X[i])
         n == neural_scores[i]
     IN nan_to_num(IF h > 700 THEN np_maximum(h, n)
                   ELSE IF gt(n, 900) THEN n
                   ELSE h)]

\* the first call of extract_features for the pair, without all_roles
\* (debug_inference_consistency.py 19, engine.py 429)
ExtractFeatures ==
  /\ scorer_pc = "start"
  /\ features' = [features EXCEPT ![1] =
        <<extract_features(scorer_in.emp, scorer_in.shift[1],
                           scorer_in.all_roles[1], scorer_in.mappings)>>]
  /\ scorer_pc' = "extracted"
  /\ UNCHANGED <<solver_vars, job_vars, flag_vars, chunk_vars, scorer_in, final_score>>

\* a second call for the same worker, with a list of candidate roles and
\* with the role of the shift written as the caller has it
\* (debug_inference_consistency.py 22-26)
ExtractFeaturesAgain(role, all_roles) ==
  /\ scorer_pc = "extracted"
  /\ LET shift == [scorer_in.shift[1] EXCEPT !.role = role]
     IN /\ scorer_in' = [scorer_in EXCEPT !.shift = Append(@, shift),
                                          !.all_roles = Append(@, all_roles)]
        /\ features' = [features EXCEPT ![2] =
              <<extract_features(scorer_in.emp, shift, all_roles, scorer_in.mappings)>>]
  /\ scorer_pc' = "compared"
  /\ UNCHANGED <<solver_vars, job_vars, flag_vars, chunk_vars, final_score>>

\* predict_affinity for the pair; it extracts the features itself
PredictAffinity ==
  /\ scorer_pc = "start"
  /\ \E n \in NeuralScores :
       final_score' = [final_score EXCEPT !.affinity =
          <<[neural |-> n,
             value |-> predict_affinity(scorer_in.emp, scorer_in.shift[1],
                                        scorer_in.all_roles[1], scorer_in.mappings, n)]>>]
  /\ scorer_pc' = "scored"
  /\ UNCHANGED <<solver_vars, job_vars, flag_vars, chunk_vars, scorer_in, features>>

\* predict_batch on the one-row batch of the extracted features
\* (engine.py 429-441)
PredictBatch ==
  /\ scorer_pc = "extracted"
  /\ \E n \in NeuralScores :
       final_score' = [final_score EXCEPT !.batch =
          <<[neural |-> n, value |-> predict_batch(features[1], <<n>>)[1]]>>]
  /\ scorer_pc' = "scored"
  /\ UNCHANGED <<solver_vars, job_vars, flag_vars, chunk_vars, scorer_in, features>>

ScorerNext ==
  \/ ExtractFeatures
  \/ \E role \in ScorerRoles, all_roles \in RoleLists : ExtractFeaturesAgain(role, all_roles)
  \/ PredictAffinity
  \/ PredictBatch

ScorerInit == InitNoCall /\ InitJobs /\ InitFlag /\ InitScorer /\ InitChunkIdle

ScorerSpec == ScorerInit /\ [][ScorerNext]_vars

\* ------------------------------------------------------------------------
\* The chunking loop of one prediction, statement by statement
\* (engine.py 197-211)
\* ------------------------------------------------------------------------
\* engine.py 197-199: target_dur, chunks = [], remaining = hours_needed
ChunkBegin ==
  /\ chunk_pc = "start"
  /\ remaining' = chunk_item.predicted_hours
  /\ chunk_pc' = "test"
  /\ UNCHANGED <<solver_vars, job_vars, flag_vars, scorer_vars, chunk_item, block, chunked>>

\* engine.py 202: while remaining >= 2.0
ChunkTest ==
  /\ chunk_pc = "test"
  /\ chunk_pc' = IF remaining >= 8 THEN "body" ELSE "done"
  /\ UNCHANGED <<solver_vars, job_vars, flag_vars, scorer_vars, chunk_item, remaining, block,
                 chunked>>

\* engine.py 203-211: the block is appended and taken out of remaining; the
\* loop is left when less than an hour remains
ChunkBody ==
  /\ chunk_pc = "body"
  /\ LET b == chunk_block(remaining, chunk_item.typical_duration)
     IN /\ block' = b
        /\ chunked' = chunked + b
        /\ remaining' = remaining - b
        /\ chunk_pc' = IF remaining - b < 4 THEN "done" ELSE "test"
  /\ UNCHANGED <<solver_vars, job_vars, flag_vars, scorer_vars, chunk_item>>

ChunkNext == ChunkBegin \/ ChunkTest \/ ChunkBody

ChunkInit == InitNoCall /\ InitJobs /\ InitFlag /\ InitScorerIdle /\ InitChunk

ChunkSpec == ChunkInit /\ [][ChunkNext]_vars

\* the interpreter keeps executing the loop
ChunkLive == ChunkSpec /\ WF_vars(ChunkNext)

\* ------------------------------------------------------------------------
\* Properties of the returned schedule
\* ------------------------------------------------------------------------
Assigned == {i \in 1..Len(results) : ~results[i].is_unassigned}

AssignedTo(id) == {i \in Assigned : results[i].employee_id = id}

WorkerIds == {employees[e].id : e \in 1..Len(employees)}

\* start, length and end of a record's [start, end) interval, in minutes
\* from day 0; an end before the start is on the next day
RecStart(r) == r.date * 1440 + r.start_time[1] * 60 + r.start_time[2]

RecLength(r) ==
  LET d == (r.end_time[1] * 60 + r.end_time[2]) - (r.start_time[1] * 60 + r.start_time[2])
  IN IF d < 0 THEN d + 1440 ELSE d

RecEnd(r) == RecStart(r) + RecLength(r)

RECURSIVE RecMinutes(_)
RecMinutes(S) ==
  IF S = {} THEN 0
  ELSE LET i == CHOOSE k \in S : TRUE IN RecLength(results[i]) + RecMinutes(S \ {i})

\* C1: a returned schedule holds one record per required shift, in which the
\* shift is either assigned to exactly one worker that has an assignment
\* variable for it, or marked unassigned with employee_id "unassigned".
CoverageTotality ==
  pc = "returned" =>
    /\ Len(results) = Len(required_shifts)
    /\ \A i \in 1..Len(results) :
         LET r == results[i]
             ones == {e \in 1..Len(employees) :
                        has_solution(outcome, required_shifts) /\ <<e, i>> \in outcome.values}
         IN /\ r.id = required_shifts[i].id
            /\ \/ /\ r.is_unassigned
                  /\ r.employee_id = "unassigned"
                  /\ ones = {}
               \/ /\ ~r.is_unassigned
                  /\ r.employee_id # "unassigned"
                  /\ Cardinality(ones) = 1
                  /\ \A e \in ones : employees[e].id = r.employee_id /\ <<e, i>> \in x

CoverageTotalityWitness ==
  /\ pc = "returned"
  /\ \E i, j \in 1..Len(results) : ~results[i].is_unassigned /\ results[j].is_unassigned
  /\ \E i, j \in Assigned : results[i].employee_id # results[j].employee_id

\* C2: in a returned schedule no two shifts of one worker on the same day
\* have overlapping [start, end) intervals.
NoDoubleBooking ==
  pc = "returned" =>
    \A i \in Assigned, j \in Assigned :
      (i < j /\ results[i].employee_id = results[j].employee_id
             /\ results[i].date = results[j].date) =>
        ~(RecStart(results[i]) < RecEnd(results[j]) /\ RecStart(results[j]) < RecEnd(results[i]))

\* two shifts that only touch are assigned to one worker, and two
\* overlapping shifts of a day are in one schedule
NoDoubleBookingWitness ==
  /\ pc = "returned"
  /\ \E i \in Assigned, j \in Assigned :
       /\ results[i].employee_id = results[j].employee_id
       /\ RecEnd(results[i]) = RecStart(results[j])
  /\ \E i, j \in 1..Len(results) :
       /\ i # j
       /\ results[i].date = results[j].date
       /\ RecStart(results[i]) < RecEnd(results[j])
       /\ RecStart(results[j]) < RecEnd(results[i])

\* the weekly limit of a worker, in hours: the one of the labor profile or,
\* without a known profile, the tenant default
WeeklyLimitHours(emp) ==
  IF emp.labor_profile_id \in DOMAIN labor_profiles
  THEN labor_profiles[emp.labor_profile_id].max_weekly_hours
  ELSE IF "max_hours_weekly" \in DOMAIN entity THEN entity["max_hours_weekly"] ELSE 40

\* C3: in a returned schedule the minutes assigned to a worker in one ISO
\* week are at most 60 times the weekly hours of the worker's labor profile
\* (tenant default without a known profile).
WeeklyCap ==
  pc = "returned" =>
    \A e \in 1..Len(employees) :
      \A w \in {results[i].date \div 7 : i \in AssignedTo(employees[e].id)} :
        RecMinutes({i \in AssignedTo(employees[e].id) : results[i].date \div 7 = w})
          <= WeeklyLimitHours(employees[e]) * 60

\* one worker limited to 20 hours, three 8-hour shifts of one week requested:
\* two are assigned and one is left unassigned
WeeklyCapWitness ==
  /\ pc = "returned"
  /\ Len(employees) = 1
  /\ WeeklyLimitHours(employees[1]) = 20
  /\ Len(results) = 3
  /\ \A i \in 1..3 : RecLength(results[i]) = 480 /\ results[i].date \div 7 = 0
  /\ Cardinality(Assigned) = 2

\* the minimum rest of a worker, in minutes: the one of the labor profile,
\* 660 when no profile gives one
MinRestMinutes(emp) ==
  IF emp.labor_profile_id \in DOMAIN labor_profiles
  THEN labor_profiles[emp.labor_profile_id].min_rest_hours * 60
  ELSE 660

\* C4: in a returned schedule, two shifts assigned to one worker on
\* consecutive assigned days are separated by at least the min_rest_hours of
\* the worker's labor profile (660 minutes without one).
RestLaw ==
  pc = "returned" =>
    \A e \in 1..Len(employees) :
      LET mine == AssignedTo(employees[e].id)
      IN \A i \in mine, j \in mine :
           (/\ results[i].date < results[j].date
            /\ ~\E k \in mine : results[i].date < results[k].date
                                 /\ results[k].date < results[j].date)
           => RecStart(results[j]) - RecEnd(results[i]) >= MinRestMinutes(employees[e])

\* a role as the eligibility rule reads it: without the spaces around it,
\* in upper case
Trimmed(r) ==
  LET idx == {i \in 1..Len(r) : r[i] # " "}
  IN IF idx = {} THEN <<>>
     ELSE SubSeq(r, CHOOSE i \in idx : \A j \in idx : i <= j,
                    CHOOSE i \in idx : \A j \in idx : j <= i)

RoleKey(r) ==
  LET t == Trimmed(r)
  IN [i \in 1..Len(t) |-> IF t[i] \in DOMAIN UpperOf THEN UpperOf[t[i]] ELSE t[i]]

\* a occurs in b as a run of consecutive characters
Contains(b, a) == \E i \in 1..(Len(b) - Len(a) + 1) : SubSeq(b, i, i + Len(a) - 1) = a

RolesCompatible(a, b) ==
  \/ a = b
  \/ Contains(a, b)
  \/ Contains(b, a)
  \/ a = <<"W", "O", "R", "K", "E", "R">>
  \/ b = <<"W", "O", "R", "K", "E", "R">>

InContract(hired, dismissed, date) ==
  /\ (hired = NoDate \/ date >= hired)
  /\ (dismissed = NoDate \/ date <= dismissed)

Eligible(emp, shift) ==
  /\ RolesCompatible(RoleKey(emp.role), RoleKey(shift.role))
  /\ InContract(emp.dtHired, emp.dtDismissed, shift.date)

\* C5: when the pair variables have been created, one exists exactly for the
\* pairs with compatible roles (equal, one within the other, or WORKER on
\* either side) and a shift date within the worker's contract; a returned
\* record never assigns a worker whose role is incompatible with the shift's.
RoleIntegrity ==
  /\ pc = "vars" =>
       x = {p \in (1..Len(employees)) \X (1..Len(required_shifts)) :
              Eligible(employees[p[1]], required_shifts[p[2]])}
  /\ pc = "returned" =>
       \A i \in Assigned :
         \A e \in 1..Len(employees) :
           employees[e].id = results[i].employee_id =>
             RolesCompatible(RoleKey(employees[e].role), RoleKey(results[i].role))

\* a worker with role "worker" is given a shift without role, and has no
\* variable for a shift after the dismissal date
RoleIntegrityWitness ==
  /\ pc = "returned"
  /\ Len(employees) = 1
  /\ employees[1].role = <<"w", "o", "r", "k", "e", "r">>
  /\ \E i \in Assigned : required_shifts[i].role = <<>>
  /\ \E i \in 1..Len(required_shifts) :
       required_shifts[i].date > employees[1].dtDismissed /\ <<1, i>> \notin x

\* the unavailability record u names the worker with identifier id: by the
\* identifier, or by a worker of the request with the same name in upper case
Names(u, id) ==
  \/ u.employee_id = id
  \/ \E a \in 1..Len(req_employees), b \in 1..Len(req_employees) :
       /\ req_employees[a].id = u.employee_id
       /\ req_employees[b].id = id
       /\ upper_name(req_employees[a].name) = upper_name(req_employees[b].name)

\* C6: a worker named by an unavailability record on a shift's date, by
\* identifier or by a worker with the same normalized name, is not assigned
\* to that shift.
UnavailabilityRespected ==
  pc = "returned" =>
    \A i \in Assigned :
      \A k \in 1..Len(unavailabilities) :
        unavailabilities[k].date = results[i].date =>
          ~Names(unavailabilities[k], results[i].employee_id)

\* no worker is eligible for any shift; computed on the distinct attributes
EmployeeKinds == {<<employees[e].role, employees[e].dtHired, employees[e].dtDismissed>> :
                    e \in 1..Len(employees)}

ShiftKinds == {<<required_shifts[i].role, required_shifts[i].date>> :
                 i \in 1..Len(required_shifts)}

NoEligiblePair ==
  \A ek \in EmployeeKinds, sk \in ShiftKinds :
    ~(/\ RolesCompatible(RoleKey(ek[1]), RoleKey(sk[1]))
      /\ InContract(ek[2], ek[3], sk[2]))

Ended == pc \in {"returned", "raised"}

AllUnassigned ==
  /\ Len(results) = Len(required_shifts)
  /\ \A i \in 1..Len(results) : results[i].is_unassigned

\* C7 as stated: with shifts to cover and no worker, or no eligible pair,
\* solve_schedule returns, every shift unassigned.
GracefulDegradation ==
  (Ended /\ required_shifts # <<>> /\ NoEligiblePair) =>
    (pc = "returned" /\ AllUnassigned)

\* C7: with shifts to cover, workers x shifts within the size ceiling, and
\* no worker or no eligible pair, solve_schedule returns, every shift
\* unassigned.
GracefulDegradationWithinCeiling ==
  \/ (pc = "returned" /\ AllUnassigned)
  \/ ~(/\ Ended
       /\ required_shifts # <<>>
       /\ Len(employees) * Len(required_shifts) <= 1000000
       /\ NoEligiblePair)

\* a worker whose contract fits none of three shifts
GracefulDegradationWitness ==
  /\ pc = "returned"
  /\ Len(employees) = 1
  /\ Len(required_shifts) = 3
  /\ NoEligiblePair
  /\ AllUnassigned

\* C8: when the solver ends INFEASIBLE or UNKNOWN, solve_schedule returns one
\* record per shift, every one unassigned.
NonConvergenceDegrades ==
  outcome.status \in {"INFEASIBLE", "UNKNOWN"} =>
    (pc = "returned" /\ AllUnassigned)

\* the demand of the oracle, when the oracle was asked and answered
PredictedDemand ==
  IF pc # "start" /\ pc # "forecast" /\ ~oracle.raises THEN oracle.predictions ELSE <<>>

StatusLifecycle ==
  [][\A j \in JobIds :
       jobs'[j].status # jobs[j].status =>
         <<jobs[j].status, jobs'[j].status>> \in
           { <<"absent", "queued">>, <<"queued", "processing">>,
             <<"processing", "completed">>, <<"processing", "failed">> }]_vars

\* ------------------------------------------------------------------------
\* Properties of the job controller
\* ------------------------------------------------------------------------
\* C11: an execution of the worker that has marked its job processing and
\* then ends, by return or by exception, leaves the job completed or failed
\* in the store, never processing.
WorkerAlwaysSettles ==
  [][\A w \in Invocations :
       (worker[w].pc \in {"solved", "saved"} /\ worker'[w].pc = "idle") =>
         jobs'[worker[w].job_id].status \in {"completed", "failed"}]_vars

\* C12: a job that is processing is eventually reported by GET /job/{id} as
\* completed or failed; it does not stay processing forever for the caller.
EventuallyReported ==
  \A j \in JobIds :
    (jobs[j].status = "processing") ~>
      (get_job_status(jobs[j]) \in {"completed", "failed"})

\* the executions of solve_worker that are inside solve_schedule for job j
Solving(j) == {w \in Invocations : worker[w].pc = "solving" /\ worker[w].job_id = j}

\* C13: for any job id at most one execution of the solve is in progress at
\* any time, whatever the deliveries of its task to the worker endpoint.
SingleFlight == \A j \in JobIds : Cardinality(Solving(j)) <= 1

\* ------------------------------------------------------------------------
\* Properties of the running flag
\* ------------------------------------------------------------------------
\* the calls of solve_schedule and the training runs that are executing
Executing ==
  {<<"solve", p>> : p \in {q \in SolveIds : solver_proc[q].pc # "idle"}}
  \cup {<<"training", p>> : p \in {q \in RetrainIds : trainer_proc[q].pc # "idle"}}

\* C14: the running flag keeps solves and global training apart: at most
\* one of them is executing at any time.
FlagGuardsConcurrency == Cardinality(Executing) <= 1

\* the flag as the clock sees it
FlagStale == status_age * 60 > STALE_SECONDS

\* C15: a retrain request is answered busy exactly when it finds the flag
\* running and updated within the last 5 minutes; a running flag that is
\* older is reset and the training starts.
StaleFlagIgnored ==
  [][\A p \in RetrainIds :
       (trainer_proc[p].pc = "idle" /\ trainer_proc'[p] # trainer_proc[p]) =>
         (trainer_proc'[p].answer = "busy"
            <=> (system_status = "running" /\ ~FlagStale))]_vars

\* C16: once every solve that has started has exited, and no training is
\* under way, the stored status is not "running", whatever the interleaving
\* of the read-modify-write status updates.
FlagCleared == Executing = {} => system_status # "running"

\* two solves have run, one of them has put back a status that the other
\* had replaced in between, and both have exited
FlagClearedWitness ==
  /\ Executing = {}
  /\ system_status = "complete"
  /\ \E p, q \in SolveIds :
       p # q /\ solver_proc[p].stale_write /\ solver_proc[q].stale_write

\* ------------------------------------------------------------------------
\* Order of the returned schedule
\* ------------------------------------------------------------------------
\* the part of a record or of a shift that says which shift it is
ShiftKey(r) == <<r.id, r.date, r.start_time, r.end_time>>

\* C19: the i-th record of the returned schedule is the record of the i-th
\* shift of required_shifts, whatever assignment the solver found.
ResultOrder ==
  pc = "returned" =>
    /\ Len(results) = Len(required_shifts)
    /\ \A i \in 1..Len(results) : ShiftKey(results[i]) = ShiftKey(required_shifts[i])

\* three different shifts, the first left unassigned and the others
\* assigned to two different workers
ResultOrderWitness ==
  /\ pc = "returned"
  /\ Len(results) = 3
  /\ Cardinality({ShiftKey(results[i]) : i \in 1..3}) = 3
  /\ results[1].is_unassigned
  /\ ~results[2].is_unassigned
  /\ ~results[3].is_unassigned
  /\ results[2].employee_id # results[3].employee_id

\* ------------------------------------------------------------------------
\* Properties of the configuration
\* ------------------------------------------------------------------------
\* C17: in every solve the penalty_unassigned in use is at least 500 and the
\* fairness_weight in use is at least 80, whatever the stored configuration
\* and with or without overrides in the request.
ConfigFloors ==
  pc \in {"forecast", "demand", "vars", "returned", "raised"} =>
    penalty_unassigned >= 500 /\ fairness_weight >= 80

\* ------------------------------------------------------------------------
\* Properties of the affinity scorer
\* ------------------------------------------------------------------------
\* C18: two calls of extract_features for the same worker and shift give the
\* same role-index feature whatever list of candidate roles each call is
\* given, and two shift roles that differ only in case or in surrounding
\* whitespace give the same role index.
RoleIndexStable ==
  (scorer_pc = "compared"
     /\ RoleKey(scorer_in.shift[1].role) = RoleKey(scorer_in.shift[2].role))
  => features[1][1].role_idx_feature = features[2][1].role_idx_feature

\* the heuristic score as the rule states it, in thousandths
ClaimedHeuristic(f) ==
  LET raw == 500 + (IF f.role_match > 900 THEN 300 ELSE 0 - 400)
                 - (2 * f.dist_feature) \div 10
                 + (IF f.project_affinity > 900 THEN 100 ELSE 0)
  IN IF raw < 10 THEN 10 ELSE IF raw > 990 THEN 990 ELSE raw

\* the fusion rule as stated, for a neural score that is a number
ClaimedFusion(h, n) ==
  IF h > 700 THEN (IF n > h THEN n ELSE h)
  ELSE IF n > 900 THEN n
  ELSE h

\* C20: predict_affinity and predict_batch both return max(h, n) if h > 0.7,
\* else n if n > 0.9, else h, with h the clamped heuristic of the features;
\* so a pair whose role-match feature is 1 is scored above 0.7 whatever the
\* neural score is.
FusionRule ==
  LET f == extract_features(scorer_in.emp, scorer_in.shift[1],
                            scorer_in.all_roles[1], scorer_in.mappings)
  IN \A s \in {final_score.affinity, final_score.batch} :
       s # <<>> =>
         /\ s[1].neural # NaN => s[1].value = ClaimedFusion(ClaimedHeuristic(f), s[1].neural)
         /\ f.role_match = 1000 => s[1].value > 700

\* C21: the role-match feature of extract_features is 1.0 exactly for the
\* pairs of roles that the eligibility filter of solve_schedule accepts
\* (equal, nested, or WORKER on either side), and 0.0 for the others.
RoleMatchAgrees ==
  scorer_pc = "extracted" =>
    /\ features[1][1].role_match \in {0, 1000}
    /\ features[1][1].role_match = 1000
         <=> role_match(norm_role(scorer_in.emp.role), norm_role(scorer_in.shift[1].role))

\* ------------------------------------------------------------------------
\* Properties of the constraint model on short shifts and windows
\* ------------------------------------------------------------------------
\* C22: in a returned schedule, a worker who is assigned anything on a day
\* is assigned at least 60 minutes that day; a shift shorter than 60 minutes
\* is never the only assignment of a worker's day.
MinimumDailyPresence ==
  pc = "returned" =>
    \A e \in 1..Len(employees) :
      \A d \in {results[i].date : i \in AssignedTo(employees[e].id)} :
        RecMinutes({i \in AssignedTo(employees[e].id) : results[i].date = d}) >= 60

\* the two touching half hours are both assigned to the worker and the lone
\* 45 minutes are left unassigned
MinimumDailyPresenceWitness ==
  /\ pc = "returned"
  /\ Len(results) = 3
  /\ \A i \in 1..3 : RecLength(results[i]) < 60
  /\ Assigned = {1, 2}
  /\ results[1].employee_id = results[2].employee_id

\* the assigned records of a shift shorter than 120 minutes without any record
\* of the same worker and day at most 30 minutes before or after it
IsolatedShort ==
  {i \in Assigned :
     /\ RecLength(results[i]) < 120
     /\ ~\E j \in Assigned \ {i} :
          /\ results[j].employee_id = results[i].employee_id
          /\ results[j].date = results[i].date
          /\ \/ (0 <= RecStart(results[j]) - RecEnd(results[i])
                 /\ RecStart(results[j]) - RecEnd(results[i]) <= 30)
             \/ (0 <= RecStart(results[i]) - RecEnd(results[j])
                 /\ RecStart(results[i]) - RecEnd(results[j]) <= 30)}

\* C23: the objective of every returned solution carries the isolation
\* penalty of 10000 once for every short shift that is assigned without an
\* assigned neighbour, whether or not the shift had potential neighbours.
IsolationPenalized ==
  (pc = "returned" /\ has_solution(outcome, required_shifts)) =>
    isolation_terms(outcome.values, outcome.is_isolated, x, required_shifts)
      = 0 - 10000 * Cardinality(IsolatedShort)

\* the record u blocks the shift: same date and, when u has a time window,
\* a window that overlaps the [start, end) interval of the shift
WindowBlocks(u, shift) ==
  /\ u.date = shift.date
  /\ \/ u.start_time = <<>>
     \/ u.end_time = <<>>
     \/ LET s0 == shift.start_time[1] * 60 + shift.start_time[2]
            len == (shift.end_time[1] * 60 + shift.end_time[2]) - s0
            s1 == s0 + (IF len < 0 THEN len + 1440 ELSE len)
            u0 == u.start_time[1] * 60 + u.start_time[2]
            u1 == u.end_time[1] * 60 + u.end_time[2]
        IN u0 < s1 /\ s0 < u1

\* C25: the constraint model takes a pair away from the solver for an
\* unavailability record only when the record blocks the shift: a record
\* with a time window leaves the shifts of its date outside the window
\* assignable, a record without window blocks the whole day.
WindowRespected ==
  pc = "vars" =>
    \A p \in x :
      unavailable(employees, unavailabilities, employees[p[1]], required_shifts[p[2]])
        => \E k \in 1..Len(unavailabilities) :
             WindowBlocks(unavailabilities[k], required_shifts[p[2]])

\* C26: in a returned schedule, any two shifts assigned to one worker that
\* start on different days, adjacent or not, are at least 660 minutes apart
\* from the end of the earlier to the start of the later; two shifts of
\* consecutive days 400 minutes apart are never both the worker's.
InterDayRestComplete ==
  pc = "returned" =>
    \A e \in 1..Len(employees) :
      \A i \in AssignedTo(employees[e].id), j \in AssignedTo(employees[e].id) :
        results[i].date < results[j].date
          => RecStart(results[j]) - RecEnd(results[i]) >= 660

\* four shifts on four days running: the worker holds the first and the last,
\* a pair the rest loop does not compare because the worker has pair
\* variables on the two days between; the second shift, 400 minutes after
\* the first, is not the worker's
InterDayRestCompleteWitness ==
  /\ pc = "returned"
  /\ Len(results) = 4
  /\ {1, 4} \subseteq Assigned
  /\ 2 \notin Assigned
  /\ results[1].employee_id = results[4].employee_id
  /\ results[4].date - results[1].date = 3
  /\ RecStart(results[2]) - RecEnd(results[1]) = 400
  /\ ~rest_compared(x, required_shifts, 1, 1, 4)

\* C27: whatever the request, leaving every shift unassigned (no pair
\* variable at 1, every indicator at 0) satisfies all hard constraints of
\* the model, so the solver never reports the model infeasible.
AllUnassignedFeasible ==
  /\ pc = "vars" =>
       /\ hard_constraints({}, x, employees, required_shifts, unavailabilities,
                           labor_profiles, entity, fairness_weight)
       /\ {} \in isolation_values({}, x, required_shifts)
  /\ outcome.status # "INFEASIBLE"

\* a model with pair variables, one of them blocked by an unavailability,
\* and a short shift with an isolation indicator
AllUnassignedFeasibleWitness ==
  /\ pc = "vars"
  /\ x # {}
  /\ \/ \E p \in x : unavailable(employees, unavailabilities, employees[p[1]],
                                 required_shifts[p[2]])
     \/ isolation_vars(x, required_shifts) # {}

\* ------------------------------------------------------------------------
\* Properties of the chunking of predicted demand
\* ------------------------------------------------------------------------
\* C24: every block made out of a prediction of the oracle lasts at least
\* 2 hours and at most 12 hours, whatever hours and typical duration the
\* oracle returned.
BlockBounds ==
  (chunk_item.by = "oracle" /\ chunked > 0) => (8 <= block /\ block <= 48)

\* 11h30 on a typical duration of 10h: the remainder of 1h30 is absorbed
\* into one block of 11h30, above the typical duration and below the cap
BlockBoundsWitness ==
  /\ chunk_pc = "done"
  /\ chunk_item.by = "oracle"
  /\ chunk_item.typical_duration = 40
  /\ chunk_item.predicted_hours = 46
  /\ block = 46

ReturnedMeansCompleted ==
  [][\A w \in Invocations :
       (worker[w].pc = "solved" /\ worker[w].error = None /\ worker'[w].pc = "saved")
         => \/ /\ jobs'[worker[w].job_id].status = "completed"
               /\ jobs'[worker[w].job_id].result = worker[w].result
            \/ /\ jobs'[worker[w].job_id].status = "failed"
               /\ jobs'[worker[w].job_id].error = "DatastoreError"]_vars

\* C29: every job stored as queued has a task enqueued for it; a submission
\* whose enqueueing fails leaves no queued record behind.
QueuedHasTask ==
  \A j \in JobIds : jobs[j].status = "queued" => j \in tasks

====
